---- MODULE Spec2Model ----
(***************************************************************************)
(* A state-machine model of the drag/slide engine (Dragdealer), the        *)
(* navigation abstraction (Navi), the horizontal slide navigator, the      *)
(* desktop paged navigator and the responsive Pagination controller of     *)
(* src/unnamed/part_002.                                                   *)
(*                                                                         *)
(* Numbers.  The engine computes with JavaScript doubles.  The model keeps *)
(* every pixel offset and every ratio as a fixed-point number: an integer  *)
(* count of 1/Q units, Q = 2^FracBits.  Products and quotients are rounded *)
(* to the nearest unit, as a double rounds to its nearest representable    *)
(* value.  The geometries and inputs are chosen so that every value other  *)
(* than a glide step is exact.  The step functions are sensitive to the    *)
(* last bit of a quotient, so SpecStep computes them with doubles proper:  *)
(* binary fractions of 60 places whose operations round to 53 significant  *)
(* bits, ties to even, as IEEE 754 prescribes.                             *)
(*                                                                         *)
(* Exceptions.  A method that dereferences a field the constructor never   *)
(* set raises a TypeError; the model records it in the instance's threw    *)
(* flag and keeps the assignments made before the faulting statement.      *)
(*                                                                         *)
(* Page.  The navigators work on a page whose mobile and desktop lists     *)
(* hold the same number of page buttons; the elements the Pagination       *)
(* controller looks up under its wrap exist whenever the wrap does, and    *)
(* the slide navigator's handle is as wide as its list items together.     *)
(* getResolution, isMobileResolution, getLoopedLastIndex, isIndexInLoop    *)
(* and getReverseLoopedFirstIndex are defined outside part_002: a call of  *)
(* one of them may return any value of its result type.                    *)
(*                                                                         *)
(* Specifications.  SpecDrag drives one Dragdealer, SpecNavi one navigator *)
(* on its own, SpecPag a Pagination controller on its page, SpecDesk the   *)
(* desktop navigator's window of displayed buttons, with the documented    *)
(* wrap rule in place of getLoopedLastIndex, SpecOpt a Dragdealer under    *)
(* further options on a 200px wrapper, SpecStep the step functions of a    *)
(* Dragdealer at rest, SpecBanner the auto-rotation timer of a             *)
(* PromotionBanner under the mouse and the fingers, SpecTram the step      *)
(* queue of a tram Transition.                                             *)
(***************************************************************************)
EXTENDS Integers, Sequences, FiniteSets, TLC

\* ------------------------------------------------------------------------
\* Bounds of the model
\* ------------------------------------------------------------------------
FracBits == 6     \* fractional bits of the fixed-point numbers
MaxInputs == 2    \* pointer presses, resizes and API calls in one run of SpecDrag
MaxSteps == 24    \* the largest steps option of SpecStep

Q == 2 ^ FracBits

NULL == [null |-> TRUE]
TypeError == "TypeError"

\* a local constant of the code: v is computed once and named in F
Let(v, F(_)) == F(v)

\* ------------------------------------------------------------------------
\* Fixed-point arithmetic
\* ------------------------------------------------------------------------
Abs(a) == IF a < 0 THEN -a ELSE a
Max(a, b) == IF a >= b THEN a ELSE b
Min(a, b) == IF a <= b THEN a ELSE b
FromInt(n) == n * Q
\* nearest integer to a / b, b > 0, a tie going up
RoundDiv(a, b) == (2 * a + b) \div (2 * b)
FDiv(a, b) == IF b > 0 THEN RoundDiv(a * Q, b) ELSE RoundDiv(-(a * Q), -b)
FMul(a, b) == RoundDiv(a * b, Q)
\* Math.round: floor(x + 0.5)
MathRound(a) == ((2 * a + Q) \div (2 * Q)) * Q

\* ------------------------------------------------------------------------
\* Dragdealer: helpers                                     (part_002 724-792)
\* ------------------------------------------------------------------------
groupCompare(a, b) == a[1] = b[1] /\ a[2] = b[2]

calculateStepRatios(steps) ==
  [i \in 1..steps |-> IF steps > 1 THEN FDiv(FromInt(i - 1), FromInt(steps - 1)) ELSE 0]

\* the loop of getClosestStep: i is the 0-based loop index, k and min its variables
RECURSIVE closestLoop(_, _, _, _, _)
closestLoop(d, value, i, k, min) ==
  IF i > d.options.steps - 1 THEN k
  ELSE IF Abs(d.stepRatios[i + 1] - value) < min
       THEN closestLoop(d, value, i + 1, i, Abs(d.stepRatios[i + 1] - value))
       ELSE closestLoop(d, value, i + 1, k, min)

getClosestStep(d, value) == d.stepRatios[closestLoop(d, value, 0, 0, Q) + 1]

getClosestSteps(d, group) == <<getClosestStep(d, group[1]), getClosestStep(d, group[2])>>

getStepNumber(d, value) == FMul(getClosestStep(d, value), FromInt(d.options.steps - 1)) + Q

\* a getRatioByOffset that passes the offset through when the range is zero
getRatioByOffset_NoRangeCheck(offset, range, padding) ==
  IF range # 0 THEN FDiv(offset - padding, range) ELSE offset - padding

getRatioByOffset(offset, range, padding) ==
  IF range # 0 THEN FDiv(offset - padding, range) ELSE 0

getRatiosByOffsets(d, group) ==
  <<getRatioByOffset(group[1], d.bounds.availWidth, d.bounds.left),
    getRatioByOffset(group[2], d.bounds.availHeight, d.bounds.top)>>

getOffsetByRatio(ratio, range, padding) == MathRound(FMul(ratio, range)) + padding

getOffsetsByRatios(d, group) ==
  <<getOffsetByRatio(group[1], d.bounds.availWidth, d.bounds.left),
    getOffsetByRatio(group[2], d.bounds.availHeight, d.bounds.top)>>

\* a getProperValue that forgets the upper bound
getProperValue_NoUpperBound(d, value) ==
  LET proper == <<Max(value[1], 0), Max(value[2], 0)>>
  IN IF ((~d.dragging /\ ~d.tapping) \/ d.options.snap) /\ d.options.steps > 1
     THEN getClosestSteps(d, proper)
     ELSE proper

getProperValue(d, value) ==
  LET proper == <<Min(Max(value[1], 0), Q), Min(Max(value[2], 0), Q)>>
  IN IF ((~d.dragging /\ ~d.tapping) \/ d.options.snap) /\ d.options.steps > 1
     THEN getClosestSteps(d, proper)
     ELSE proper

\* a getLooseValue that lets half of the excess through
getLooseValue_Half(d, value) ==
  Let(getProperValue(d, value), LAMBDA proper :
    <<proper[1] + FDiv(value[1] - proper[1], FromInt(2)),
      proper[2] + FDiv(value[2] - proper[2], FromInt(2))>>)

getLooseValue(d, value) ==
  Let(getProperValue(d, value), LAMBDA proper :
    <<proper[1] + FDiv(value[1] - proper[1], FromInt(4)),
      proper[2] + FDiv(value[2] - proper[2], FromInt(4))>>)

draggingOnDisabledAxis(d, c) ==
  (~d.options.horizontal /\ c.xDiff > c.yDiff) \/ (~d.options.vertical /\ c.yDiff > c.xDiff)

\* ------------------------------------------------------------------------
\* State
\* ------------------------------------------------------------------------
VARIABLES
  dd,       \* the Dragdealer instance under test (its fields, the handle's style,
            \* and the callbacks invoked / exception raised by the last operation)
  Cursor,   \* the module-wide Cursor object: x and y (xDiff and yDiff are read only
            \* by the handler that has just refreshed them, so they are not kept)
  dom,      \* layout of the wrapper and handle elements: offsetWidth / offsetHeight
  op,       \* the public method the last step called with its arguments, or "event"
  budget,   \* the number of inputs taken so far
  pg,       \* the page with its Pagination instance
  nv,       \* a navigator on its own, with what its last step did
  pb,       \* a PromotionBanner with the window's interval timers and the pointers
  tr        \* a tram Transition with its timer and the steps that have begun

dragVars == <<dd, Cursor, dom, op, budget>>

\* Position.get(wrapper): the wrapper sits at the viewport origin
WrapperPos == <<0, 0>>

\* ------------------------------------------------------------------------
\* Dragdealer: methods.  d is the instance, c the Cursor, g the layout.
\* d.cb is the sequence of callbacks the running operation has invoked,
\* d.threw whether it has raised a TypeError.
\* ------------------------------------------------------------------------
Call(d, name) == [d EXCEPT !.cb = Append(@, [name |-> name])]

\* Position.get(handle): the handle is laid out at the wrapper's origin and moved
\* by the style renderHandlePosition wrote
HandlePos(d) == <<WrapperPos[1] + d.style[1], WrapperPos[2] + d.style[2]>>

\* a calculateBounds that leaves the paddings out of the available range
calculateBounds_IgnoresPadding(d, g) ==
  [top |-> d.options.top, bottom |-> -d.options.bottom + g.wrapperH,
   left |-> d.options.left, right |-> -d.options.right + g.wrapperW,
   availWidth |-> g.wrapperW - g.handleW,
   availHeight |-> g.wrapperH - g.handleH]

calculateBounds(d, g) ==
  LET top == d.options.top
      bottom == -d.options.bottom + g.wrapperH
      left == d.options.left
      right == -d.options.right + g.wrapperW
  IN [top |-> top, bottom |-> bottom, left |-> left, right |-> right,
      availWidth |-> (right - left) - g.handleW,
      availHeight |-> (bottom - top) - g.handleH]

calculateValuePrecision(d) ==
  LET xPrecision == IF d.options.xPrecision # 0 THEN d.options.xPrecision
                    ELSE Abs(d.bounds.availWidth)
      yPrecision == IF d.options.yPrecision # 0 THEN d.options.yPrecision
                    ELSE Abs(d.bounds.availHeight)
  IN <<IF xPrecision # 0 THEN FDiv(Q, xPrecision) ELSE 0,
       IF yPrecision # 0 THEN FDiv(Q, yPrecision) ELSE 0>>

renderHandlePosition(d) ==
  [d EXCEPT !.style = <<IF d.options.horizontal THEN d.offset_current[1] ELSE @[1],
                        IF d.options.vertical THEN d.offset_current[2] ELSE @[2]>>]

updateOffsetFromValue(d) ==
  Let(IF ~d.options.snap THEN getOffsetsByRatios(d, d.value_current)
      ELSE getOffsetsByRatios(d, getClosestSteps(d, d.value_current)), LAMBDA cur :
    IF ~groupCompare(cur, d.offset_prev)
    THEN [renderHandlePosition([d EXCEPT !.offset_current = cur]) EXCEPT !.offset_prev = cur]
    ELSE [d EXCEPT !.offset_current = cur])

\* a callAnimationCallback that does not compare with the previous value
callAnimationCallback_Always(d) ==
  Let(IF d.options.snap /\ d.options.steps > 1
      THEN getClosestSteps(d, d.value_current) ELSE d.value_current, LAMBDA value :
    [d EXCEPT !.cb = Append(@, [name |-> "animationCallback", value |-> value]),
              !.value_prev = value])

\* the animation callback is logged with the value it is passed
callAnimationCallback(d) ==
  Let(IF d.options.snap /\ d.options.steps > 1
      THEN getClosestSteps(d, d.value_current) ELSE d.value_current, LAMBDA value :
    IF ~groupCompare(value, d.value_prev)
    THEN [d EXCEPT !.cb = Append(@, [name |-> "animationCallback", value |-> value]),
                   !.value_prev = value]
    ELSE d)

callTargetCallback(d) == Call(d, "callback")
\* d.dragStarted is no field of the code: it records for the log that the
\* drag-start callback has been invoked since the last drag-stop callback
callDragStartCallback(d) == [Call(d, "dragStartCallback") EXCEPT !.dragStarted = TRUE]
\* the drag-stop callback is logged with its arguments, the target and the delta,
\* and with whether a drag-start callback came before it
callDragStopCallback(d, delta) ==
  [d EXCEPT !.cb = Append(@, [name |-> "dragStopCallback", value |-> d.value_target,
                              delta |-> delta, started |-> d.dragStarted]),
            !.dragStarted = FALSE]

setTargetValue(d, value, loose) ==
  Let(IF loose THEN getLooseValue(d, value) ELSE getProperValue(d, value), LAMBDA target :
    callTargetCallback([d EXCEPT !.value_target = target,
                                 !.offset_target = getOffsetsByRatios(d, target)]))

setTargetValueByOffset(d, offset, loose) ==
  Let(getRatiosByOffsets(d, offset), LAMBDA value :
  Let(IF loose THEN getLooseValue(d, value) ELSE getProperValue(d, value), LAMBDA target :
    [d EXCEPT !.value_target = target,
              !.offset_target = getOffsetsByRatios(d, target)]))

setWrapperOffset(d) == [d EXCEPT !.offset_wrapper = WrapperPos]

reflow(d, g) ==
  IF ~d.live THEN [d EXCEPT !.threw = TRUE]
  ELSE Let([setWrapperOffset(d) EXCEPT !.bounds = calculateBounds(d, g)], LAMBDA d1 :
         updateOffsetFromValue([d1 EXCEPT !.valuePrecision = calculateValuePrecision(d1)]))

enable(d) ==
  IF ~d.live THEN [d EXCEPT !.disabled = FALSE, !.threw = TRUE]
  ELSE [d EXCEPT !.disabled = FALSE]

disable(d) ==
  IF ~d.live THEN [d EXCEPT !.disabled = TRUE, !.threw = TRUE]
  ELSE [d EXCEPT !.disabled = TRUE]

\* the speed factor of one glide step: Math.min(speed * timeOffset / 25, 1)
glideFactor(d, timeOffset) ==
  Min(FDiv(FMul(d.options.speed, FromInt(timeOffset)), FromInt(25)), Q)

glideDiff(d) == <<d.value_target[1] - d.value_current[1], d.value_target[2] - d.value_current[2]>>

\* the value glide() returns
glideMoves(d) == glideDiff(d)[1] # 0 \/ glideDiff(d)[2] # 0

\* the state glide() leaves
glide(d, timeOffset) ==
  LET diff == glideDiff(d)
  IN IF diff[1] = 0 /\ diff[2] = 0 THEN d
     ELSE IF Abs(diff[1]) > d.valuePrecision[1] \/ Abs(diff[2]) > d.valuePrecision[2]
     THEN [d EXCEPT !.value_current = <<@[1] + FMul(diff[1], glideFactor(d, timeOffset)),
                                        @[2] + FMul(diff[2], glideFactor(d, timeOffset))>>]
     ELSE [d EXCEPT !.value_current = d.value_target]

animate(d, c, timeOffset, direct, first) ==
  IF direct /\ ~d.dragging THEN d
  ELSE
    Let(IF d.dragging
        THEN Let(setTargetValueByOffset(d,
                   <<c.x - d.offset_wrapper[1] - d.offset_mouse[1],
                     c.y - d.offset_wrapper[2] - d.offset_mouse[2]>>,
                   d.options.loose), LAMBDA t :
               [t EXCEPT !.change = <<t.value_target[1] - d.value_target[1],
                                      t.value_target[2] - d.value_target[2]>>])
        ELSE d, LAMBDA d1 :
    Let(IF d1.dragging \/ first THEN [d1 EXCEPT !.value_current = d1.value_target]
        ELSE d1, LAMBDA d2 :
    Let(IF d2.dragging THEN d2 ELSE glide(d2, timeOffset), LAMBDA d3 :
      IF d2.dragging \/ (~d2.dragging /\ glideMoves(d2)) \/ first
      THEN callAnimationCallback(updateOffsetFromValue(d3))
      ELSE d3)))

animateWithRequestAnimationFrame(d, c, dt) ==
  LET timeOffset == IF d.timeStamp THEN dt ELSE 0
  IN [animate([d EXCEPT !.timeStamp = TRUE], c, timeOffset, FALSE, FALSE)
        EXCEPT !.interval = TRUE]

setValue(d, x, y, snap) ==
  IF ~d.live THEN [d EXCEPT !.threw = TRUE]
  ELSE Let(setTargetValue(d, <<x, y>>, FALSE), LAMBDA d1 :
         IF snap
         THEN callAnimationCallback(
                updateOffsetFromValue([d1 EXCEPT !.value_current = d1.value_target]))
         ELSE d1)

\* (n - 1) / (steps - 1); with a single step the quotient is Infinity, which every
\* later Math.min(.., 1) turns into 1
stepRatio(d, n) ==
  IF d.options.steps = 1 THEN Q ELSE FDiv(n - Q, FromInt(d.options.steps - 1))

setStep(d, x, y, snap) ==
  setValue(d,
    IF d.options.steps # 0 /\ x > Q THEN stepRatio(d, x) ELSE 0,
    IF d.options.steps # 0 /\ y > Q THEN stepRatio(d, y) ELSE 0,
    snap)

getValue(d) == IF ~d.live THEN TypeError ELSE d.value_target

\* a startTap that does not consult the tapping option
startTap_IgnoresTappingOption(d, c, g) ==
  IF d.disabled THEN d
  ELSE Let(setWrapperOffset([d EXCEPT !.tapping = TRUE]), LAMBDA d1 :
         setTargetValueByOffset(d1,
           <<c.x - d1.offset_wrapper[1] - FDiv(g.handleW, FromInt(2)),
             c.y - d1.offset_wrapper[2] - FDiv(g.handleH, FromInt(2))>>, FALSE))

startTap(d, c, g) ==
  IF d.disabled \/ ~d.options.tapping THEN d
  ELSE Let(setWrapperOffset([d EXCEPT !.tapping = TRUE]), LAMBDA d1 :
         setTargetValueByOffset(d1,
           <<c.x - d1.offset_wrapper[1] - FDiv(g.handleW, FromInt(2)),
             c.y - d1.offset_wrapper[2] - FDiv(g.handleH, FromInt(2))>>, FALSE))

stopTap(d) ==
  IF d.disabled \/ ~d.tapping THEN d
  ELSE setTargetValue([d EXCEPT !.tapping = FALSE], d.value_current, FALSE)

\* a startDrag that does not ask whether the engine is disabled
startDrag_IgnoresDisabled(d, c) ==
  LET d1 == setWrapperOffset([d EXCEPT !.dragging = TRUE])
  IN callDragStartCallback(
       [d1 EXCEPT !.dragStartPosition = <<c.x, c.y>>,
                  !.offset_mouse = <<c.x - HandlePos(d)[1], c.y - HandlePos(d)[2]>>])

startDrag(d, c) ==
  IF d.disabled THEN d
  ELSE LET d1 == setWrapperOffset([d EXCEPT !.dragging = TRUE])
       IN callDragStartCallback(
            [d1 EXCEPT !.dragStartPosition = <<c.x, c.y>>,
                       !.offset_mouse = <<c.x - HandlePos(d)[1], c.y - HandlePos(d)[2]>>])

\* how far stopDrag extends the last movement when the slide option is set
SlideFactor == 4

\* a stopDrag that releases with the loose bounds of the drag
stopDrag_LooseRelease(d, c) ==
  IF d.disabled \/ ~d.dragging THEN d
  ELSE LET target == IF d.options.slide
                     THEN <<d.value_current[1] + d.change[1] * SlideFactor,
                            d.value_current[2] + d.change[2] * SlideFactor>>
                     ELSE d.value_current
       IN callDragStopCallback(
            setTargetValue([d EXCEPT !.dragging = FALSE], target, d.options.loose),
            <<0, 0>>)

\* a stopDrag that never slides
stopDrag_NoSlide(d, c) ==
  IF d.disabled \/ ~d.dragging THEN d
  ELSE callDragStopCallback(
         setTargetValue([d EXCEPT !.dragging = FALSE], d.value_current, FALSE),
         <<0, 0>>)

\* a stopDrag that does not ask whether a drag is in progress
stopDrag_NoDraggingCheck(d, c) ==
  IF d.disabled THEN d
  ELSE callDragStopCallback(
         setTargetValue([d EXCEPT !.dragging = FALSE], d.value_current, FALSE),
         <<0, 0>>)

stopDrag(d, c) ==
  IF d.disabled \/ ~d.dragging THEN d
  ELSE LET deltaX == IF d.bounds.availWidth = 0 THEN 0
                     ELSE FDiv(c.x - d.dragStartPosition[1], d.bounds.availWidth)
           deltaY == IF d.bounds.availHeight = 0 THEN 0
                     ELSE FDiv(c.y - d.dragStartPosition[2], d.bounds.availHeight)
           target == IF d.options.slide
                     THEN <<d.value_current[1] + d.change[1] * SlideFactor,
                            d.value_current[2] + d.change[2] * SlideFactor>>
                     ELSE d.value_current
       IN callDragStopCallback(
            setTargetValue([d EXCEPT !.dragging = FALSE], target, FALSE),
            <<deltaX, deltaY>>)

\* an unbindEventListeners that leaves the animation frame requested
unbindEventListeners_KeepsFrame(d) ==
  IF ~d.live THEN [d EXCEPT !.threw = TRUE]
  ELSE [d EXCEPT !.bound = FALSE]

unbindEventListeners(d) ==
  IF ~d.live THEN [d EXCEPT !.threw = TRUE]
  ELSE [d EXCEPT !.bound = FALSE, !.interval = FALSE]

\* Cursor.set(e) for an event at client position p on an unscrolled page
CursorSet(c, p) ==
  LET x == IF p[1] # 0 \/ p[2] # 0 THEN p[1] ELSE c.x
      y == IF p[1] # 0 \/ p[2] # 0 THEN p[2] ELSE c.y
  IN [x |-> x, y |-> y, xDiff |-> Abs(x - c.x), yDiff |-> Abs(y - c.y)]

\* the part of the Cursor that outlives the handler
CursorKept(c) == [x |-> c.x, y |-> c.y]

\* the constructor: init() and bindEventListeners() when both elements are found
\* the instance the constructor leaves when it returns before init()
Blank(options) ==
               [options |-> options, live |-> FALSE,
                value_prev |-> <<0, 0>>, value_current |-> <<0, 0>>, value_target |-> <<0, 0>>,
                offset_wrapper |-> <<0, 0>>, offset_mouse |-> <<0, 0>>,
                offset_prev |-> <<0, 0>>, offset_current |-> <<0, 0>>,
                offset_target |-> <<0, 0>>,
                dragStartPosition |-> <<0, 0>>, change |-> <<0, 0>>, stepRatios |-> <<>>,
                activity |-> FALSE, dragging |-> FALSE, tapping |-> FALSE,
                dragStarted |-> FALSE, disabled |-> FALSE,
                bounds |-> [top |-> 0, bottom |-> 0, left |-> 0, right |-> 0,
                            availWidth |-> 0, availHeight |-> 0],
                valuePrecision |-> <<0, 0>>, timeStamp |-> FALSE,
                interval |-> FALSE, bound |-> FALSE, style |-> <<0, 0>>,
                cb |-> <<>>, threw |-> FALSE]

\* init(): the fields it sets, reflow(), and disable() when the option asks for it
Dragdealer_init(d, g) ==
  Let(reflow([d EXCEPT !.live = TRUE,
                       !.value_prev = <<-Q, -Q>>,
                       !.value_current = <<d.options.x, d.options.y>>,
                       !.value_target = <<d.options.x, d.options.y>>,
                       !.offset_prev = <<FromInt(-999999), FromInt(-999999)>>,
                       !.stepRatios = calculateStepRatios(d.options.steps)], g), LAMBDA i2 :
    IF d.options.disabled THEN disable(i2) ELSE i2)

\* bindEventListeners(): the listeners, and the first animate(false, true)
bindEventListeners(d) ==
  [animate([d EXCEPT !.bound = TRUE], [x |-> 0, y |-> 0], 0, FALSE, TRUE)
     EXCEPT !.interval = TRUE]

Dragdealer(options, g, wrapperFound, handleFound) ==
  IF wrapperFound /\ handleFound
  THEN bindEventListeners(Dragdealer_init(Blank(options), g))
  ELSE Blank(options)

\* ------------------------------------------------------------------------
\* Inputs of the drag-engine specification
\* ------------------------------------------------------------------------
\* Dragdealer.prototype.defaults, with the speed the slide navigator passes (0.25)
\* in place of the default 0.1, which no binary fraction represents
BaseOptions ==
  [disabled |-> FALSE, horizontal |-> TRUE, vertical |-> FALSE, slide |-> TRUE,
   steps |-> 0, snap |-> FALSE, loose |-> FALSE, speed |-> Q \div 4,
   xPrecision |-> 0, yPrecision |-> 0, tapping |-> TRUE,
   x |-> 0, y |-> 0, top |-> 0, bottom |-> 0, left |-> 0, right |-> 0]

\* the option records the engine is constructed with: the slide navigator's
\* (loose, slide, speed 0.25) and variations of the documented options; snap is
\* only given together with steps, as its documentation requires
OptionSets ==
  { [BaseOptions EXCEPT !.loose = TRUE],
    [BaseOptions EXCEPT !.slide = FALSE],
    [BaseOptions EXCEPT !.steps = 3],
    [BaseOptions EXCEPT !.steps = 2, !.snap = TRUE, !.loose = TRUE],
    [BaseOptions EXCEPT !.horizontal = FALSE, !.vertical = TRUE] }

\* layouts: handle narrower than, as wide as, and wider than the wrapper
Layouts ==
  { [wrapperW |-> FromInt(w[1]), wrapperH |-> FromInt(2),
     handleW |-> FromInt(w[2]), handleH |-> FromInt(2)] :
      w \in {<<4, 2>>, <<2, 2>>, <<2, 4>>} }

\* client positions of pointer events
Positions == { <<FromInt(x), 0>> : x \in {0, 1, 3} }

\* ratios passed to setValue: below, inside and above [0, 1]
Ratios == { -(Q \div 2), Q \div 4, Q + Q \div 2 }

\* step numbers passed to setStep
StepNumbers == { FromInt(2) }

\* requestAnimationFrame's frame gaps in ms (25 is also the timer fallback's)
TimeOffsets == {25, 100}

Begin(d) == [d EXCEPT !.cb = <<>>, !.threw = FALSE]

\* ------------------------------------------------------------------------
\* The drag engine driven by pointer events, animation frames and its API
\* ------------------------------------------------------------------------
InitDrag ==
  /\ dom = [wrapperW |-> FromInt(4), wrapperH |-> FromInt(2),
            handleW |-> FromInt(2), handleH |-> FromInt(2)]
  /\ \E o \in OptionSets, found \in {<<TRUE, TRUE>>, <<TRUE, FALSE>>, <<FALSE, FALSE>>} :
       dd = Dragdealer(o, dom, found[1], found[2])
  /\ Cursor = [x |-> 0, y |-> 0]
  /\ op = [name |-> "new"]
  /\ budget = 0
  /\ pg = NULL /\ nv = NULL /\ pb = NULL /\ tr = NULL

\* one more input is taken
Input ==
  /\ budget < MaxInputs
  /\ budget' = budget + 1

onHandleMouseDown ==
  /\ Input
  /\ dd.bound
  /\ dd' = startDrag([Begin(dd) EXCEPT !.activity = FALSE], Cursor)
  /\ op' = [name |-> "event"]
  /\ UNCHANGED <<pg, nv, pb, tr>>
  /\ UNCHANGED <<Cursor, dom>>

onHandleTouchStart ==
  /\ Input
  /\ dd.bound
  /\ \E p \in Positions :
       /\ Cursor' = CursorKept(CursorSet(Cursor, p))
       /\ dd' = startDrag([Begin(dd) EXCEPT !.activity = FALSE], Cursor')
  /\ op' = [name |-> "event"]
  /\ UNCHANGED <<pg, nv, pb, tr>>
  /\ UNCHANGED dom

onDocumentMouseMove ==
  /\ dd.bound
  /\ \E p \in Positions :
       IF p[1] - dd.dragStartPosition[1] = 0 /\ p[2] - dd.dragStartPosition[2] = 0
       THEN /\ dd' = Begin(dd)
            /\ UNCHANGED Cursor
       ELSE /\ Cursor' = CursorKept(CursorSet(Cursor, p))
            /\ dd' = IF dd.dragging THEN [Begin(dd) EXCEPT !.activity = TRUE] ELSE Begin(dd)
  /\ op' = [name |-> "event"]
  /\ UNCHANGED <<pg, nv, pb, tr>>
  /\ UNCHANGED <<dom, budget>>

onWrapperTouchMove ==
  /\ dd.bound
  /\ \E p \in Positions :
       LET c == CursorSet(Cursor, p)
       IN /\ Cursor' = CursorKept(c)
          /\ dd' = IF ~dd.activity /\ draggingOnDisabledAxis(dd, c)
                   THEN (IF dd.dragging THEN stopDrag(Begin(dd), c) ELSE Begin(dd))
                   ELSE [Begin(dd) EXCEPT !.activity = TRUE]
  /\ op' = [name |-> "event"]
  /\ UNCHANGED <<pg, nv, pb, tr>>
  /\ UNCHANGED <<dom, budget>>

onWrapperMouseDown ==
  /\ Input
  /\ dd.bound
  /\ dd' = startTap(Begin(dd), Cursor, dom)
  /\ op' = [name |-> "event"]
  /\ UNCHANGED <<pg, nv, pb, tr>>
  /\ UNCHANGED <<Cursor, dom>>

onWrapperTouchStart ==
  /\ Input
  /\ dd.bound
  /\ \E p \in Positions :
       /\ Cursor' = CursorKept(CursorSet(Cursor, p))
       /\ dd' = startTap(Begin(dd), Cursor', dom)
  /\ op' = [name |-> "event"]
  /\ UNCHANGED <<pg, nv, pb, tr>>
  /\ UNCHANGED dom

onDocumentMouseUp ==
  /\ dd.bound
  /\ dd' = stopTap(stopDrag(Begin(dd), Cursor))
  /\ op' = [name |-> "event"]
  /\ UNCHANGED <<pg, nv, pb, tr>>
  /\ UNCHANGED <<Cursor, dom, budget>>

onDocumentTouchEnd ==
  /\ dd.bound
  /\ dd' = stopTap(stopDrag(Begin(dd), Cursor))
  /\ op' = [name |-> "event"]
  /\ UNCHANGED <<pg, nv, pb, tr>>
  /\ UNCHANGED <<Cursor, dom, budget>>

\* the handler only cancels the click event: no field of the instance changes
onHandleClick ==
  /\ dd.bound
  /\ dd' = Begin(dd)
  /\ op' = [name |-> "event"]
  /\ UNCHANGED <<pg, nv, pb, tr>>
  /\ UNCHANGED <<Cursor, dom, budget>>

\* the window is resized: the layout changes and the engine's listener reflows
onWindowResize ==
  /\ Input
  /\ dd.bound
  /\ dom' \in Layouts
  /\ dd' = reflow(Begin(dd), dom')
  /\ op' = [name |-> "event"]
  /\ UNCHANGED <<pg, nv, pb, tr>>
  /\ UNCHANGED Cursor

\* one animation frame, dt ms after the previous one
Tick ==
  /\ dd.interval
  /\ \E dt \in TimeOffsets : dd' = animateWithRequestAnimationFrame(Begin(dd), Cursor, dt)
  /\ op' = [name |-> "event"]
  /\ UNCHANGED <<pg, nv, pb, tr>>
  /\ UNCHANGED <<Cursor, dom, budget>>

CallEnable ==
  /\ Input
  /\ dd' = enable(Begin(dd))
  /\ op' = [name |-> "enable"]
  /\ UNCHANGED <<pg, nv, pb, tr>>
  /\ UNCHANGED <<Cursor, dom>>

CallDisable ==
  /\ Input
  /\ dd' = disable(Begin(dd))
  /\ op' = [name |-> "disable"]
  /\ UNCHANGED <<pg, nv, pb, tr>>
  /\ UNCHANGED <<Cursor, dom>>

CallReflow ==
  /\ Input
  /\ dd' = reflow(Begin(dd), dom)
  /\ op' = [name |-> "reflow"]
  /\ UNCHANGED <<pg, nv, pb, tr>>
  /\ UNCHANGED <<Cursor, dom>>

CallGetValue ==
  /\ Input
  /\ dd' = [Begin(dd) EXCEPT !.threw = getValue(dd) = TypeError]
  /\ op' = [name |-> "getValue"]
  /\ UNCHANGED <<pg, nv, pb, tr>>
  /\ UNCHANGED <<Cursor, dom>>

CallSetValue ==
  /\ Input
  /\ \E x \in Ratios, snap \in BOOLEAN :
       /\ dd' = setValue(Begin(dd), x, 0, snap)
       /\ op' = [name |-> "setValue", x |-> x, snap |-> snap]
       /\ UNCHANGED <<pg, nv, pb, tr>>
  /\ UNCHANGED <<Cursor, dom>>

CallSetStep ==
  /\ Input
  /\ \E x \in StepNumbers :
       /\ dd' = setStep(Begin(dd), x, 0, TRUE)
       /\ op' = [name |-> "setStep", x |-> x]
       /\ UNCHANGED <<pg, nv, pb, tr>>
  /\ UNCHANGED <<Cursor, dom>>

CallUnbindEventListeners ==
  /\ Input
  /\ dd' = unbindEventListeners(Begin(dd))
  /\ op' = [name |-> "unbindEventListeners"]
  /\ UNCHANGED <<pg, nv, pb, tr>>
  /\ UNCHANGED <<Cursor, dom>>

NextDrag ==
  \/ onHandleMouseDown
  \/ onHandleTouchStart
  \/ onDocumentMouseMove
  \/ onWrapperTouchMove
  \/ onWrapperMouseDown
  \/ onWrapperTouchStart
  \/ onDocumentMouseUp
  \/ onDocumentTouchEnd
  \/ onHandleClick
  \/ onWindowResize
  \/ Tick
  \/ CallEnable
  \/ CallDisable
  \/ CallReflow
  \/ CallGetValue
  \/ CallSetValue
  \/ CallSetStep
  \/ CallUnbindEventListeners

vars == <<dd, Cursor, dom, op, budget, pg, nv, pb, tr>>

SpecDrag == InitDrag /\ [][NextDrag]_vars

\* ------------------------------------------------------------------------
\* The drag engine under further options, on a 200px wrapper with a 50px handle
\* ------------------------------------------------------------------------
\* speed 1 makes every glide reach its target in one frame, so that every value
\* is a multiple of 1/8 and, until setValue asks for a quarter of the 150px range
\* (37.5px, rendered at 38px), every handle offset a multiple of 25px
OptBase == [BaseOptions EXCEPT !.speed = Q]

\* option records: steps with snap on a loose engine, steps alone, tapping switched
\* off, an engine constructed disabled, and paddings on both axes
OptOptionSets ==
  { [OptBase EXCEPT !.steps = 3, !.snap = TRUE, !.loose = TRUE],
    [OptBase EXCEPT !.steps = 2],
    [OptBase EXCEPT !.tapping = FALSE],
    [OptBase EXCEPT !.disabled = TRUE],
    [OptBase EXCEPT !.vertical = TRUE,
                    !.left = FromInt(25), !.right = FromInt(25),
                    !.top = FromInt(25), !.bottom = FromInt(25)] }

OptLayout ==
  [wrapperW |-> FromInt(200), wrapperH |-> FromInt(150),
   handleW |-> FromInt(50), handleH |-> FromInt(50)]

\* client positions of pointer events: over the centre of the handle at rest, half
\* the range further right, and five ranges further right
OptPositions == { <<FromInt(x), FromInt(25)>> : x \in {25, 100, 775} }

\* the ratios passed to setValue
OptRatios == { <<Q \div 2, Q \div 2>>, <<Q \div 4, 0>> }

\* the frame gap in ms
OptTimeOffset == 25

InitOpt ==
  /\ dom = OptLayout
  /\ \E o \in OptOptionSets : dd = Dragdealer(o, dom, TRUE, TRUE)
  /\ Cursor = [x |-> 0, y |-> 0]
  /\ op = [name |-> "new"]
  /\ budget = 0
  /\ pg = NULL /\ nv = NULL /\ pb = NULL /\ tr = NULL

OptHandleTouchStart ==
  /\ Input
  /\ dd.bound
  /\ \E p \in OptPositions :
       /\ Cursor' = CursorKept(CursorSet(Cursor, p))
       /\ dd' = startDrag([Begin(dd) EXCEPT !.activity = FALSE], Cursor')
  /\ op' = [name |-> "handleDown"]
  /\ UNCHANGED <<dom, pg, nv, pb, tr>>

OptWrapperTouchStart ==
  /\ Input
  /\ dd.bound
  /\ \E p \in OptPositions :
       /\ Cursor' = CursorKept(CursorSet(Cursor, p))
       /\ dd' = startTap(Begin(dd), Cursor', dom)
  /\ op' = [name |-> "wrapperDown"]
  /\ UNCHANGED <<dom, pg, nv, pb, tr>>

OptDocumentMouseMove ==
  /\ dd.bound
  /\ \E p \in OptPositions :
       IF p[1] - dd.dragStartPosition[1] = 0 /\ p[2] - dd.dragStartPosition[2] = 0
       THEN /\ dd' = Begin(dd)
            /\ UNCHANGED Cursor
       ELSE /\ Cursor' = CursorKept(CursorSet(Cursor, p))
            /\ dd' = IF dd.dragging THEN [Begin(dd) EXCEPT !.activity = TRUE] ELSE Begin(dd)
  /\ op' = [name |-> "move"]
  /\ UNCHANGED <<dom, budget, pg, nv, pb, tr>>

OptDocumentMouseUp ==
  /\ dd.bound
  /\ dd' = stopTap(stopDrag(Begin(dd), Cursor))
  /\ op' = [name |-> "pointerUp"]
  /\ UNCHANGED <<Cursor, dom, budget, pg, nv, pb, tr>>

OptTick ==
  /\ dd.interval
  /\ dd' = animateWithRequestAnimationFrame(Begin(dd), Cursor, OptTimeOffset)
  /\ op' = [name |-> "tick"]
  /\ UNCHANGED <<Cursor, dom, budget, pg, nv, pb, tr>>

OptEnable ==
  /\ Input
  /\ dd' = enable(Begin(dd))
  /\ op' = [name |-> "enable"]
  /\ UNCHANGED <<Cursor, dom, pg, nv, pb, tr>>

OptDisable ==
  /\ Input
  /\ dd' = disable(Begin(dd))
  /\ op' = [name |-> "disable"]
  /\ UNCHANGED <<Cursor, dom, pg, nv, pb, tr>>

OptSetValue ==
  /\ Input
  /\ \E r \in OptRatios :
       /\ dd' = setValue(Begin(dd), r[1], r[2], TRUE)
       /\ op' = [name |-> "setValue", x |-> r[1], y |-> r[2], snap |-> TRUE]
  /\ UNCHANGED <<Cursor, dom, pg, nv, pb, tr>>

NextOpt ==
  \/ OptHandleTouchStart
  \/ OptWrapperTouchStart
  \/ OptDocumentMouseMove
  \/ OptDocumentMouseUp
  \/ OptTick
  \/ OptEnable
  \/ OptDisable
  \/ OptSetValue

SpecOpt == InitOpt /\ [][NextOpt]_vars

\* ------------------------------------------------------------------------
\* Doubles.  A double x with 0 <= x < 64 that is 0 or at least 1/128 is the triple
\* <<a, b, c>> of limbs with x = (a * 2^40 + b * 2^20 + c) / 2^60, b and c below
\* 2^20: every such double, and every sum, difference and product by a small
\* integer of two of them, is a whole number of 2^-60.
\* ------------------------------------------------------------------------
Limb == 2 ^ 20

DblInt(n) == <<n * Limb, 0, 0>>

\* the index of the highest set bit of n >= 1
RECURSIVE Log2(_)
Log2(n) == IF n < 2 THEN 0 ELSE 1 + Log2(n \div 2)

\* the carries of the two lower limbs taken up
DblNorm(a, b, c) ==
  <<a + (b + c \div Limb) \div Limb, (b + c \div Limb) % Limb, c % Limb>>

\* v, an exact result whose places beyond 2^-60 are zero unless sticky, rounded to
\* 53 significant bits, a tie going to the even neighbour
DblRound(v, sticky) ==
  IF v[1] = 0 \/ Log2(v[1]) <= 12 THEN v
  ELSE LET unit == 2 ^ (Log2(v[1]) - 12)
           low == v[3] % unit
           even == (v[3] \div unit) % 2 = 0
           up == 2 * low > unit \/ (2 * low = unit /\ (sticky \/ ~even))
       IN DblNorm(v[1], v[2], v[3] - low + IF up THEN unit ELSE 0)

\* i / n for integers 0 <= i < 2048 and 0 < n < 2048
DblDiv(i, n) ==
  LET r1 == (i * Limb) % n
      r2 == (r1 * Limb) % n
  IN DblRound(<<(i * Limb) \div n, (r1 * Limb) \div n, (r2 * Limb) \div n>>,
              (r2 * Limb) % n # 0)

\* x * m for a double x <= 1 and an integer 0 <= m < 2048
DblMulInt(x, m) == DblRound(DblNorm(x[1] * m, x[2] * m, x[3] * m), FALSE)

DblAdd(x, y) == DblRound(DblNorm(x[1] + y[1], x[2] + y[2], x[3] + y[3]), FALSE)

DblLess(x, y) ==
  \/ x[1] < y[1]
  \/ x[1] = y[1] /\ x[2] < y[2]
  \/ x[1] = y[1] /\ x[2] = y[2] /\ x[3] < y[3]

\* x - y for x >= y, before rounding
DblMinus(x, y) ==
  LET c == x[3] - y[3]
      b == x[2] - y[2] - (IF c < 0 THEN 1 ELSE 0)
  IN <<x[1] - y[1] - (IF b < 0 THEN 1 ELSE 0),
       IF b < 0 THEN b + Limb ELSE b,
       IF c < 0 THEN c + Limb ELSE c>>

\* Math.abs(x - y)
DblAbsDiff(x, y) ==
  DblRound(IF DblLess(x, y) THEN DblMinus(y, x) ELSE DblMinus(x, y), FALSE)

DblMin(x, y) == IF DblLess(y, x) THEN y ELSE x
DblMax(x, y) == IF DblLess(x, y) THEN y ELSE x

\* ------------------------------------------------------------------------
\* Dragdealer: the step functions, computed with doubles.  d is an instance at
\* rest (no drag, no tap) of which only the steps option, the step ratios and
\* the values are kept.
\* ------------------------------------------------------------------------
\* a calculateStepRatios that divides by the number of steps
calculateStepRatios64_BySteps(steps) ==
  [i \in 1..steps |-> IF steps > 1 THEN DblDiv(i - 1, steps) ELSE DblInt(0)]

calculateStepRatios64(steps) ==
  [i \in 1..steps |-> IF steps > 1 THEN DblDiv(i - 1, steps - 1) ELSE DblInt(0)]

\* the loop of getClosestStep: i is the 0-based loop index, k and min its variables
RECURSIVE closestLoop64(_, _, _, _, _)
closestLoop64(d, value, i, k, min) ==
  IF i > d.options.steps - 1 THEN k
  ELSE IF DblLess(DblAbsDiff(d.stepRatios[i + 1], value), min)
       THEN closestLoop64(d, value, i + 1, i, DblAbsDiff(d.stepRatios[i + 1], value))
       ELSE closestLoop64(d, value, i + 1, k, min)

getClosestStep64(d, value) == d.stepRatios[closestLoop64(d, value, 0, 0, DblInt(1)) + 1]

getStepNumber64(d, value) ==
  DblAdd(DblMulInt(getClosestStep64(d, value), d.options.steps - 1), DblInt(1))

\* the instance is at rest, so the value is moved to the step grid when steps > 1
getProperValue64(d, value) ==
  LET proper == <<DblMin(DblMax(value[1], DblInt(0)), DblInt(1)),
                  DblMin(DblMax(value[2], DblInt(0)), DblInt(1))>>
  IN IF d.options.steps > 1
     THEN <<getClosestStep64(d, proper[1]), getClosestStep64(d, proper[2])>>
     ELSE proper

\* setValue(x, y, snap): the target, and with snap the current value
setValue64(d, x, y, snap) ==
  LET target == getProperValue64(d, <<x, y>>)
  IN [d EXCEPT !.value_target = target,
               !.value_current = IF snap THEN target ELSE @]

\* (n - 1) / (steps - 1) for an integer n > 1; with a single step the quotient is
\* Infinity, which the Math.min(.., 1) of getProperValue turns into 1
stepRatio64(d, n) ==
  IF d.options.steps = 1 THEN DblInt(1) ELSE DblDiv(n - 1, d.options.steps - 1)

setStep64(d, x, y, snap) ==
  setValue64(d,
    IF d.options.steps # 0 /\ x > 1 THEN stepRatio64(d, x) ELSE DblInt(0),
    IF d.options.steps # 0 /\ y > 1 THEN stepRatio64(d, y) ELSE DblInt(0),
    snap)

getStep64(d) ==
  <<getStepNumber64(d, d.value_target[1]), getStepNumber64(d, d.value_target[2])>>

\* the fields init() sets, with the default position x: 0, y: 0
Dragdealer64(steps) ==
  [options |-> [steps |-> steps],
   stepRatios |-> calculateStepRatios64(steps),
   value_current |-> <<DblInt(0), DblInt(0)>>,
   value_target |-> <<DblInt(0), DblInt(0)>>]

\* ------------------------------------------------------------------------
\* The step functions driven through setStep and getStep
\* ------------------------------------------------------------------------
\* the steps options: none, a single step, and every number up to MaxSteps
StepCounts == 0 .. MaxSteps

InitStep ==
  /\ \E steps \in StepCounts : dd = Dragdealer64(steps)
  /\ op = [name |-> "new"]
  /\ Cursor = NULL /\ dom = NULL /\ budget = 0 /\ pg = NULL /\ nv = NULL /\ pb = NULL /\ tr = NULL

\* setStep(x, 1) for a step number from 0 to one past the last
CallSetStep64 ==
  /\ \E x \in 0 .. dd.options.steps + 1 :
       /\ dd' = setStep64(dd, x, 1, FALSE)
       /\ op' = [name |-> "setStep", x |-> x]
  /\ UNCHANGED <<Cursor, dom, budget, pg, nv, pb, tr>>

\* getStep() after a setStep, on an instance with steps; op keeps the step number
\* that was set and what getStep returns
CallGetStep64 ==
  /\ op.name = "setStep"
  /\ dd.options.steps > 0
  /\ op' = [name |-> "getStep", x |-> op.x, value |-> getStep64(dd)]
  /\ UNCHANGED <<dd, Cursor, dom, budget, pg, nv, pb, tr>>

NextStep ==
  \/ CallSetStep64
  \/ CallGetStep64

SpecStep == InitStep /\ [][NextStep]_vars

\* ------------------------------------------------------------------------
\* Navi                                                  (part_002 2510-2719)
\* A navigator is a record; btns is the length of its button list, bound
\* whether its handlers are attached to the button elements, callbacks the
\* set of callback options that hold a function.  A method that invokes
\* callbacks comes with an operator giving the invocations in order.
\* ------------------------------------------------------------------------
Navi(options) ==
  [null |-> FALSE, btns |-> options.btns, callbacks |-> options.callbacks,
   currentIndex |-> 0, activateIndex |-> 0, bound |-> FALSE]

Navi_setBtnsEventHandler(n, flag) == [n EXCEPT !.bound = IF n.btns > 0 THEN flag ELSE @]

Navi_init(n) == Navi_setBtnsEventHandler(n, TRUE)

\* a callback invoked with {prevIndex, index}; activated is what the navigator's
\* getActivatedIndex() returns while the callback runs
Invocation(n, cb, prevIndex, index) ==
  [cb |-> cb, prevIndex |-> prevIndex, index |-> index, activated |-> n.activateIndex]

InvokeIfSet(n, cb, prevIndex, index) ==
  IF cb \in n.callbacks THEN <<Invocation(n, cb, prevIndex, index)>> ELSE <<>>

Navi_mouseoverBtnEventHandler(n, i) == [n EXCEPT !.currentIndex = i]
Navi_mouseoverBtnEventHandler_calls(n, i) == InvokeIfSet(n, "mouseoverCallback", 0, i)
Navi_mouseoutBtnEventHandler_calls(n, i) == InvokeIfSet(n, "mouseoutCallback", 0, i)
Navi_mousedownBtnEventHandler_calls(n, i) == InvokeIfSet(n, "mousedownCallback", 0, i)
Navi_mouseupBtnEventHandler_calls(n, i) == InvokeIfSet(n, "mouseupCallback", 0, i)

Navi_clickBtnEventHandler(n, i) == [n EXCEPT !.currentIndex = i, !.activateIndex = i]
\* a click handler that sets the indices before it invokes the callbacks
Navi_clickBtnEventHandler_calls_SetsFirst(n, i) ==
  InvokeIfSet(Navi_clickBtnEventHandler(n, i), "clickCallback", i, i)
    \o InvokeIfSet(Navi_clickBtnEventHandler(n, i), "activateCallback", i, i)

Navi_clickBtnEventHandler_calls(n, i) ==
  InvokeIfSet(n, "clickCallback", n.activateIndex, i)
    \o InvokeIfSet(n, "activateCallback", n.activateIndex, i)

\* a getBtn that forgets the end of the list
Navi_getBtn_NoUpperBound(n, index) == IF index - 1 < 0 THEN 0 ELSE index

\* 0 stands for the null getBtn returns
Navi_getBtn(n, index) == IF index - 1 < 0 \/ index - 1 >= n.btns THEN 0 ELSE index

Navi_getActivatedIndex(n) == n.activateIndex

\* an activate that accepts indices past the last button
Navi_activateIdx_NoUpperBound(n, index) == IF index <= 0 THEN 0 ELSE index

Navi_activateIdx(n, index) == IF index <= 0 \/ index > n.btns THEN 0 ELSE index
Navi_activate(n, index) == [n EXCEPT !.activateIndex = Navi_activateIdx(n, index)]
\* an activate that invokes the callback after it has set the index
Navi_activate_calls_AfterUpdate(n, index) ==
  InvokeIfSet(Navi_activate(n, index), "activateCallback",
              Navi_activateIdx(n, index), Navi_activateIdx(n, index))

Navi_activate_calls(n, index) ==
  InvokeIfSet(n, "activateCallback", n.activateIndex, Navi_activateIdx(n, index))

Navi_destroy(n) ==
  [Navi_setBtnsEventHandler(n, FALSE) EXCEPT
     !.btns = 0,
     !.callbacks = @ \ {"mouseoverCallback", "mouseoutCallback", "clickCallback",
                        "activateCallback"},
     !.currentIndex = 0,
     !.activateIndex = 0]

\* ------------------------------------------------------------------------
\* HorizontalSlideNavi                                   (part_002 2724-2915)
\* g is the layout of the wrap and handle elements at the time of the call.
\* released is the Dragdealer the navigator has let go of in destroy().
\* ------------------------------------------------------------------------
\* the options setInstance passes: the defaults of the constructor
SlideOptions == [BaseOptions EXCEPT !.slide = TRUE, !.loose = TRUE]

HorizontalSlideNavi(options) ==
  Navi(options) @@ [isDraggable |-> FALSE, dragDealer |-> NULL, resizeBound |-> FALSE,
                    released |-> NULL]

HorizontalSlideNavi_setInstance(s, g) ==
  [s EXCEPT !.dragDealer = Dragdealer(SlideOptions, g, TRUE, TRUE)]

HorizontalSlideNavi_setRatioX(s, ratioX) ==
  [s EXCEPT !.dragDealer = setValue(Begin(@), ratioX, 0, FALSE)]

HorizontalSlideNavi_setX(s, x) ==
  Let(getRatiosByOffsets(s.dragDealer, <<x, 0>>), LAMBDA offset :
    [s EXCEPT !.dragDealer = setValue(Begin(@), offset[1], offset[2], FALSE)])

\* getRatioX, setX, setRatioX, enable and disable call a method of _.dragDealer
\* without a test: a TypeError when it is null
HorizontalSlideNavi_throws(s) == s.dragDealer = NULL

HorizontalSlideNavi_getRatioX(s) == getValue(s.dragDealer)[1]

HorizontalSlideNavi_isSlidable(s) == s.isDraggable

HorizontalSlideNavi_enable(s) == [s EXCEPT !.dragDealer = enable(@)]
HorizontalSlideNavi_disable(s) == [s EXCEPT !.dragDealer = disable(@)]

\* a resize that leaves the ratio where it is when the handle fits
HorizontalSlideNavi_resize_KeepsRatio(s, g) ==
  IF s.dragDealer = NULL THEN s
  ELSE IF g.handleW > g.wrapperW
  THEN [s EXCEPT !.dragDealer = enable(@), !.isDraggable = TRUE]
  ELSE [s EXCEPT !.dragDealer = disable(@), !.isDraggable = FALSE]

HorizontalSlideNavi_resize(s, g) ==
  IF s.dragDealer = NULL THEN s
  ELSE IF g.handleW > g.wrapperW
  THEN [s EXCEPT !.dragDealer = enable(@), !.isDraggable = TRUE]
  ELSE LET s1 == IF ~s.dragDealer.disabled THEN HorizontalSlideNavi_disable(s) ELSE s
       IN [HorizontalSlideNavi_setRatioX(s1, 0) EXCEPT !.isDraggable = FALSE]

HorizontalSlideNavi_init(s, g) ==
  LET s1 == HorizontalSlideNavi_setInstance(Navi_init(s), g)
  IN HorizontalSlideNavi_resize([s1 EXCEPT !.resizeBound = TRUE], g)

HorizontalSlideNavi_destroy(s) ==
  Navi_destroy(
    [s EXCEPT !.resizeBound = FALSE,
              !.isDraggable = FALSE,
              !.released = IF s.dragDealer # NULL THEN unbindEventListeners(s.dragDealer)
                           ELSE @,
              !.dragDealer = NULL])

\* ------------------------------------------------------------------------
\* DesktopPaginationNavi                                 (part_002 3265-3546)
\* items is the number of list items under the wrap element.  The index
\* helpers getLoopedLastIndex, getReverseLoopedFirstIndex and isIndexInLoop
\* are defined outside the sources at hand: a call of one may return any
\* index (h.index) or any truth value (h.inLoop).
\* ------------------------------------------------------------------------
DISPLAY_BTN_NUM == 4

\* a jQuery object
JQ == [null |-> FALSE]

DesktopPaginationNavi(options) ==
  [null |-> FALSE, firstIndex |-> options.firstIndex,
   clickCallback |-> options.clickCallback, wrapFound |-> options.wrapFound,
   navi |-> NULL, naviListItems |-> 0, prevBtn |-> NULL, nextBtn |-> NULL,
   edgeBtnsIndex |-> [left |-> 0, right |-> 0],
   resizeBound |-> FALSE, prevNextBound |-> FALSE]

DesktopPaginationNavi_setNavi(k, items) ==
  [k EXCEPT !.navi = Navi_init(Navi([btns |-> items,
                                     callbacks |-> {"clickCallback", "activateCallback"}]))]

DesktopPaginationNavi_setPrevNextBtn(k) ==
  [k EXCEPT !.prevBtn = JQ, !.nextBtn = JQ, !.prevNextBound = TRUE]

DesktopPaginationNavi_setInstance(k, items, h) ==
  IF ~k.wrapFound THEN k
  ELSE LET k1 == [k EXCEPT !.naviListItems = items,
                           !.edgeBtnsIndex =
                              IF items > DISPLAY_BTN_NUM
                              THEN [left |-> k.firstIndex, right |-> h.index]
                              ELSE @]
           k2 == DesktopPaginationNavi_setPrevNextBtn(DesktopPaginationNavi_setNavi(k1, items))
       IN [k2 EXCEPT !.resizeBound = TRUE]

\* the index the prev / next button's click handler announces
DesktopPaginationNavi_prevIndex(k) ==
  IF k.navi.activateIndex - 1 <= 0 THEN k.navi.btns ELSE k.navi.activateIndex - 1

\* a next handler that does not wrap after the last button
DesktopPaginationNavi_nextIndex_NoWrap(k) == k.navi.activateIndex + 1

DesktopPaginationNavi_nextIndex(k) ==
  IF k.navi.activateIndex + 1 > k.navi.btns THEN 1 ELSE k.navi.activateIndex + 1

\* throws a TypeError when prevBtn is null: the statements before it have run
DesktopPaginationNavi_destroy(k) ==
  LET k1 == [k EXCEPT !.resizeBound = FALSE,
                      !.navi = IF k.navi # NULL THEN NULL ELSE @,
                      !.naviListItems = 0]
  IN IF k.prevBtn = NULL THEN k1
     ELSE [k1 EXCEPT !.prevBtn = NULL, !.nextBtn = NULL, !.prevNextBound = FALSE]

DesktopPaginationNavi_destroy_throws(k) == k.prevBtn = NULL

DesktopPaginationNavi_activate(k, index) ==
  IF k.navi # NULL THEN [k EXCEPT !.navi = Navi_activate(@, index)] ELSE k

DesktopPaginationNavi_getActivatedIndex(k) ==
  IF k.navi # NULL THEN k.navi.activateIndex ELSE 0

\* a switchBtns that anchors the window's right edge on the index for 'next' too
DesktopPaginationNavi_switchBtns_SwapsEdges(k, direction, index, h) ==
  IF k.naviListItems <= DISPLAY_BTN_NUM THEN k
  ELSE IF direction = "" THEN k
  ELSE IF h.inLoop THEN k
  ELSE [k EXCEPT !.edgeBtnsIndex = [left |-> h.index, right |-> index]]

\* a switchBtns that recomputes the window also for an index the window shows
DesktopPaginationNavi_switchBtns_NoLoopCheck(k, direction, index, h) ==
  IF k.naviListItems <= DISPLAY_BTN_NUM THEN k
  ELSE IF direction = "prev"
  THEN [k EXCEPT !.edgeBtnsIndex = [left |-> h.index, right |-> index]]
  ELSE IF direction = "next"
  THEN [k EXCEPT !.edgeBtnsIndex = [left |-> index, right |-> h.index]]
  ELSE k

DesktopPaginationNavi_switchBtns(k, direction, index, h) ==
  IF k.naviListItems <= DISPLAY_BTN_NUM THEN k
  ELSE IF direction = "" THEN k
  ELSE IF h.inLoop THEN k
  ELSE IF direction = "prev"
  THEN [k EXCEPT !.edgeBtnsIndex = [left |-> h.index, right |-> index]]
  ELSE IF direction = "next"
  THEN [k EXCEPT !.edgeBtnsIndex = [left |-> index, right |-> h.index]]
  ELSE k

\* ------------------------------------------------------------------------
\* Pagination                                            (part_002 2965-3260)
\* p is the page: the Pagination instance (inited, currentIndex, slideNavi,
\* desktopNavi, slideNaviListItems), the window (innerWidth, listeners: its
\* resize handlers in the order they were bound) and the document (items:
\* the number of page buttons in each list, itemW: the width set on the mobile
\* list items, onMobile / onPc: the button carrying the class 'on',
\* mobileBtns: click handlers on .btn-prev-mobile / .btn-next-mobile,
\* disabledBtns: the desktop prev / next buttons that are disabled).
\* p.log lists what the running operation has emitted or done, p.threw
\* whether it has raised a TypeError.  The wrap's .pagination-mobile and
\* .pagination-pc blocks with their handle exist whenever the wrap does.
\* ------------------------------------------------------------------------
BREAKPOINTS == [tablet |-> 640, pc |-> 960, max |-> 1340]

Ev(type, who, index, otherLive) ==
  [type |-> type, who |-> who, index |-> index, otherLive |-> otherLive]

Emit(p, e) == [p EXCEPT !.log = Append(@, e)]

\* $(_).trigger({type: Pagination.CLICK_PAGE_BTN, index: index})
TriggerClickPageBtn(p, index) == Emit(p, Ev("CLICK_PAGE_BTN", "Pagination", index, FALSE))

\* the wrap is as wide as the window, the handle as wide as its list items together
SlideLayout(p) ==
  [wrapperW |-> FromInt(p.innerWidth), wrapperH |-> FromInt(1),
   handleW |-> p.items * p.itemW, handleH |-> FromInt(1)]

getSlideNaviListItemWidth(p, itemLength) ==
  IF itemLength <= 1 THEN FromInt(p.innerWidth)
  ELSE FDiv(FromInt(p.innerWidth), FromInt(2))

setSlideNaviListItemsWidth(p, itemLength) ==
  IF p.slideNaviListItems # 0
  THEN [p EXCEPT !.itemW = getSlideNaviListItemWidth(p, itemLength)]
  ELSE p

Pagination_activateSlideNaviBtn(p, index) ==
  [p EXCEPT !.onMobile = Navi_getBtn(p.slideNavi, index)]

\* slideNavi.activate(index): the activate callback, then the navigator's update
slideNavi_activate(p, index) ==
  LET calls == Navi_activate_calls(p.slideNavi, index)
      p1 == IF calls # <<>> THEN Pagination_activateSlideNaviBtn(p, calls[1].index) ELSE p
  IN [p1 EXCEPT !.slideNavi = Navi_activate(@, index)]

\* desktopNavi.activate(index): the inner navigator's activate callback is
\* activateNaviBtn, which moves the class 'on'
desktopNavi_activate(p, index) ==
  LET k == p.desktopNavi
      calls == IF k.navi # NULL THEN Navi_activate_calls(k.navi, index) ELSE <<>>
      p1 == IF calls # <<>> THEN [p EXCEPT !.onPc = Navi_getBtn(k.navi, calls[1].index)]
            ELSE p
  IN [p1 EXCEPT !.desktopNavi = DesktopPaginationNavi_activate(@, index)]

Pagination_setSlidePositionByIndex(p, index) ==
  IF p.slideNavi = NULL THEN p
  ELSE
    Let(slideNavi_activate(p, index), LAMBDA p1 :
      LET n == p1.slideNavi.btns
          prev == IF index <= 1 THEN 0 ELSE index - 1
          next == IF index > n THEN 0 ELSE index + 1
      IN IF index < 1 \/ index > n THEN p1
         ELSE IF prev = 0
         THEN [p1 EXCEPT !.slideNavi = HorizontalSlideNavi_setRatioX(@, 0)]
         ELSE IF next = 0
         THEN [p1 EXCEPT !.slideNavi = HorizontalSlideNavi_setRatioX(@, Q)]
         ELSE IF Navi_getBtn(p1.slideNavi, prev) # 0
         THEN [p1 EXCEPT !.slideNavi = HorizontalSlideNavi_setX(@, -((prev - 1) * p1.itemW))]
         ELSE p1)

Pagination_setSlideNavi(p) ==
  Let(setSlideNaviListItemsWidth([p EXCEPT !.slideNaviListItems = p.items], p.items),
      LAMBDA p1 :
  Let(Emit([p1 EXCEPT !.slideNavi =
                         HorizontalSlideNavi_init(
                           HorizontalSlideNavi(
                             [btns |-> p.items,
                              callbacks |-> {"clickCallback", "activateCallback"}]),
                           SlideLayout(p1)),
                      !.listeners = @ \o <<"dragdealer", "slideNavi">>],
           Ev("construct", "slideNavi", 0, p.desktopNavi # NULL)), LAMBDA p2 :
    IF p2.slideNaviListItems <= 2
    THEN [p2 EXCEPT !.slideNavi = HorizontalSlideNavi_disable(@)]
    ELSE p2))

Pagination_setDesktopNavi(p, h) ==
  LET k == DesktopPaginationNavi_setInstance(
             DesktopPaginationNavi([firstIndex |-> p.currentIndex, clickCallback |-> TRUE,
                                    wrapFound |-> TRUE]),
             p.items, h)
  IN Emit([p EXCEPT !.desktopNavi = k, !.listeners = @ \o <<"desktopNavi">>],
          Ev("construct", "desktopNavi", 0, p.slideNavi # NULL))

Without(seq, names) == SelectSeq(seq, LAMBDA e : e \notin names)

\* _.slideNavi.destroy(); _.slideNavi = null
dropSlideNavi(p) ==
  Emit([p EXCEPT !.slideNavi = NULL,
                 !.listeners = Without(@, {"dragdealer", "slideNavi"})],
       Ev("destroy", "slideNavi", 0, FALSE))

\* _.desktopNavi.destroy(); _.desktopNavi = null
dropDesktopNavi(p) ==
  IF DesktopPaginationNavi_destroy_throws(p.desktopNavi)
  THEN [p EXCEPT !.desktopNavi = DesktopPaginationNavi_destroy(@), !.threw = TRUE]
  ELSE Emit([p EXCEPT !.desktopNavi = NULL, !.listeners = Without(@, {"desktopNavi"})],
            Ev("destroy", "desktopNavi", 0, FALSE))

\* a resize that forgets to destroy the slide navigator
Pagination_resize_KeepsSlideNavi(p, h) ==
  IF p.innerWidth >= BREAKPOINTS.pc
  THEN desktopNavi_activate(IF p.desktopNavi = NULL THEN Pagination_setDesktopNavi(p, h) ELSE p,
                            p.currentIndex)
  ELSE p

\* a resize that does not activate the current index on the navigator it set up
Pagination_resize_NoActivate(p, h) ==
  IF p.innerWidth >= BREAKPOINTS.pc
  THEN Let(IF p.slideNavi # NULL THEN dropSlideNavi(p) ELSE p, LAMBDA p1 :
         IF p1.desktopNavi = NULL THEN Pagination_setDesktopNavi(p1, h) ELSE p1)
  ELSE Let(IF p.desktopNavi # NULL THEN dropDesktopNavi(p) ELSE p, LAMBDA p1 :
         IF p1.slideNavi = NULL THEN Pagination_setSlideNavi(p1) ELSE p1)

\* a resize that sets up the desktop navigator from the tablet threshold on
Pagination_resize_TabletIsDesktop(p, h) ==
  IF p.innerWidth >= BREAKPOINTS.tablet
  THEN Let(IF p.slideNavi # NULL THEN dropSlideNavi(p) ELSE p, LAMBDA p1 :
       Let(IF p1.desktopNavi = NULL THEN Pagination_setDesktopNavi(p1, h) ELSE p1, LAMBDA p2 :
         desktopNavi_activate(p2, p2.currentIndex)))
  ELSE Let(IF p.desktopNavi # NULL THEN dropDesktopNavi(p) ELSE p, LAMBDA p1 :
         IF p1.threw THEN p1
         ELSE
       Let(IF p1.slideNavi = NULL THEN Pagination_setSlideNavi(p1) ELSE p1, LAMBDA p2 :
       Let(Pagination_setSlidePositionByIndex(slideNavi_activate(p2, p2.currentIndex),
                                              p2.currentIndex), LAMBDA p3 :
         setSlideNaviListItemsWidth([p3 EXCEPT !.slideNavi = HorizontalSlideNavi_disable(@)],
                                    p3.slideNaviListItems))))

Pagination_resize(p, h) ==
  IF p.innerWidth >= BREAKPOINTS.max \/ p.innerWidth >= BREAKPOINTS.pc
  THEN Let(IF p.slideNavi # NULL THEN dropSlideNavi(p) ELSE p, LAMBDA p1 :
       Let(IF p1.desktopNavi = NULL THEN Pagination_setDesktopNavi(p1, h) ELSE p1, LAMBDA p2 :
         desktopNavi_activate(p2, p2.currentIndex)))
  ELSE Let(IF p.desktopNavi # NULL THEN dropDesktopNavi(p) ELSE p, LAMBDA p1 :
         IF p1.threw THEN p1
         ELSE
       Let(IF p1.slideNavi = NULL THEN Pagination_setSlideNavi(p1) ELSE p1, LAMBDA p2 :
       Let(Pagination_setSlidePositionByIndex(slideNavi_activate(p2, p2.currentIndex),
                                              p2.currentIndex), LAMBDA p3 :
       Let(IF p.innerWidth >= BREAKPOINTS.tablet
           THEN (IF p3.slideNaviListItems > 2
                 THEN [p3 EXCEPT !.slideNavi = HorizontalSlideNavi_enable(@)]
                 ELSE p3)
           ELSE [p3 EXCEPT !.slideNavi = HorizontalSlideNavi_disable(@)], LAMBDA p4 :
         setSlideNaviListItemsWidth(p4, p4.slideNaviListItems)))))

\* mobile is what isMobileResolution(getResolution(breakpoint, global)) returns; both
\* functions are defined outside the sources at hand
Pagination_setInstance(p, mobile, h) ==
  LET p1 == IF mobile THEN [Pagination_setSlideNavi(p) EXCEPT !.mobileBtns = TRUE]
            ELSE Pagination_setDesktopNavi(p, h)
  IN Pagination_resize([p1 EXCEPT !.listeners = @ \o <<"pagination">>], h)

\* an init that builds its navigators whether or not the wrap element was found
Pagination_init_NoWrapCheck(p, mobile, h) ==
  Pagination_setInstance([p EXCEPT !.inited = TRUE], mobile, h)

Pagination_init(p, mobile, h) ==
  IF p.wrapFound THEN Pagination_setInstance([p EXCEPT !.inited = TRUE], mobile, h)
  ELSE [p EXCEPT !.inited = TRUE]

\* an activate that announces the page like a click does
Pagination_activate_Announces(p, index, direction, h) ==
  TriggerClickPageBtn([p EXCEPT !.currentIndex = index], index)

Pagination_activate(p, index, direction, h) ==
  Let(IF p.slideNavi # NULL
      THEN Pagination_setSlidePositionByIndex(Pagination_activateSlideNaviBtn(p, index), index)
      ELSE p, LAMBDA p1 :
    [(IF p1.desktopNavi # NULL
      THEN desktopNavi_activate(
             IF direction # ""
             THEN [p1 EXCEPT !.desktopNavi =
                                DesktopPaginationNavi_switchBtns(@, direction, index, h)]
             ELSE p1,
             index)
      ELSE p1) EXCEPT !.currentIndex = index])

\* a click callback that announces every click
Pagination_clickCallback_Always(p, index, activatedIndex) ==
  TriggerClickPageBtn([p EXCEPT !.currentIndex = index], index)

\* the click callback Pagination gives to both navigators; activatedIndex is what
\* the navigator's getActivatedIndex() returns when the callback runs
Pagination_clickCallback(p, index, activatedIndex) ==
  IF index = activatedIndex THEN p
  ELSE TriggerClickPageBtn([p EXCEPT !.currentIndex = index], index)

\* the handler Pagination binds to CLICK_PREVNEXT_BTN of its desktop navigator
Pagination_onClickPrevNextBtn(p, direction, index, h) ==
  TriggerClickPageBtn(
    [p EXCEPT !.desktopNavi = DesktopPaginationNavi_switchBtns(@, direction, index, h)],
    index)

\* the window's resize event: the handlers bound when the event is dispatched run
\* in the order they were bound; a jQuery handler removed meanwhile still runs
\* (on an instance that destroy() has emptied), the Dragdealer's own does not
resizeHandler(p, name, h) ==
  IF name = "pagination" THEN Pagination_resize(p, h)
  ELSE IF p.slideNavi = NULL THEN p
  ELSE IF name = "dragdealer"
  THEN [p EXCEPT !.slideNavi.dragDealer = reflow(Begin(@), SlideLayout(p))]
  ELSE IF name = "slideNavi"
  THEN [p EXCEPT !.slideNavi = HorizontalSlideNavi_resize(@, SlideLayout(p))]
  ELSE p

RECURSIVE dispatchResize(_, _, _)
dispatchResize(p, handlers, h) ==
  IF handlers = <<>> \/ p.threw THEN p
  ELSE dispatchResize(resizeHandler(p, Head(handlers), h), Tail(handlers), h)

\* new Pagination(options); the page it belongs to has `items` buttons in each of
\* its two lists and a window `innerWidth` pixels wide
Pagination(options) ==
  [wrapFound |-> options.wrapFound, items |-> options.items,
   innerWidth |-> options.innerWidth,
   inited |-> FALSE, currentIndex |-> 1,
   slideNavi |-> NULL, slideNaviListItems |-> 0, desktopNavi |-> NULL,
   listeners |-> <<>>, mobileBtns |-> FALSE,
   itemW |-> 0, onMobile |-> 0, onPc |-> 0, disabledBtns |-> {},
   log |-> <<>>, threw |-> FALSE]

\* ------------------------------------------------------------------------
\* Inputs of the pagination specification
\* ------------------------------------------------------------------------
\* numbers of pages: a single one, fewer and more than DISPLAY_BTN_NUM
ItemCounts == {1, 3, 5}

\* window widths: below tablet, tablet, pc and max
Widths == {320, BREAKPOINTS.tablet, BREAKPOINTS.pc, BREAKPOINTS.max}

\* indices passed to activate: 0 and one past the largest page included
Indexes == {0, 1, 3, 6}

\* the direction argument; "" stands for undefined
Directions == {"", "prev", "next"}

\* what the index helpers defined elsewhere may return
HelperResults == [inLoop : BOOLEAN, index : {1, 5}]

\* the steps taken on one page
MaxEvents == 3

\* the result when no helper is called
NoHelper == [inLoop |-> TRUE, index |-> 0]

PagBegin(p) ==
  [p EXCEPT !.log = <<>>, !.threw = FALSE,
            !.slideNavi = IF @ # NULL THEN [@ EXCEPT !.dragDealer = Begin(@)] ELSE @]

\* ------------------------------------------------------------------------
\* The pagination controller driven by the window, the buttons and its API
\* ------------------------------------------------------------------------
InitPag ==
  /\ \E wf \in BOOLEAN, n \in ItemCounts, w \in Widths :
       pg = Pagination([wrapFound |-> wf, items |-> n, innerWidth |-> w])
  /\ op = [name |-> "new"]
  /\ dd = NULL /\ Cursor = NULL /\ dom = NULL /\ budget = 0 /\ nv = NULL /\ pb = NULL /\ tr = NULL

\* one more step of the page is taken
PagFrame ==
  /\ budget < MaxEvents
  /\ budget' = budget + 1
  /\ UNCHANGED <<dd, Cursor, dom, nv, pb, tr>>

CallPaginationInit ==
  /\ ~pg.inited
  /\ \E mobile \in BOOLEAN, h \in HelperResults :
       pg' = Pagination_init(PagBegin(pg), mobile, h)
  /\ op' = [name |-> "init"]
  /\ PagFrame

\* the index helpers are reached only through switchBtns, with a direction
CallPaginationActivate ==
  /\ \E index \in Indexes, direction \in Directions :
       \E h \in IF direction = "" THEN {NoHelper} ELSE HelperResults :
         /\ pg' = Pagination_activate(PagBegin(pg), index, direction, h)
         /\ op' = [name |-> "activate", index |-> index, direction |-> direction,
                   inLoop |-> h.inLoop]
  /\ PagFrame

onWindowResizePage ==
  /\ \E w \in Widths, h \in HelperResults :
       pg' = dispatchResize([PagBegin(pg) EXCEPT !.innerWidth = w], pg.listeners, h)
  /\ op' = [name |-> "resize", from |-> pg.innerWidth]
  /\ PagFrame

\* a click on the i-th button of the mobile list
onClickSlideBtn ==
  /\ pg.slideNavi # NULL
  /\ pg.slideNavi.bound
  /\ \E i \in 1 .. pg.items :
       LET s == pg.slideNavi
           p1 == Pagination_clickCallback(PagBegin(pg), i, s.activateIndex)
           p2 == Pagination_activateSlideNaviBtn(p1, i)
       IN pg' = [p2 EXCEPT !.slideNavi = Navi_clickBtnEventHandler(@, i)]
  /\ op' = [name |-> "click"]
  /\ PagFrame

\* a click on the i-th button of the desktop list
onClickDesktopBtn ==
  /\ pg.desktopNavi # NULL
  /\ pg.desktopNavi.navi # NULL
  /\ pg.desktopNavi.navi.bound
  /\ \E i \in 1 .. pg.items :
       LET k == pg.desktopNavi
           p1 == IF k.clickCallback
                 THEN Pagination_clickCallback(PagBegin(pg), i,
                                               DesktopPaginationNavi_getActivatedIndex(k))
                 ELSE PagBegin(pg)
       IN pg' = [p1 EXCEPT !.onPc = Navi_getBtn(k.navi, i),
                           !.desktopNavi.navi = Navi_clickBtnEventHandler(@, i)]
  /\ op' = [name |-> "click"]
  /\ PagFrame

onClickPrevMobile ==
  /\ pg.mobileBtns
  /\ LET idx == IF pg.currentIndex <= 1 THEN 0 ELSE pg.currentIndex - 1
     IN pg' = TriggerClickPageBtn(PagBegin(pg), idx)
  /\ op' = [name |-> "click"]
  /\ PagFrame

\* _.slideNavi.getBtns() on the null the desktop layout leaves in slideNavi throws
onClickNextMobile ==
  /\ pg.mobileBtns
  /\ pg' = IF pg.slideNavi = NULL THEN [PagBegin(pg) EXCEPT !.threw = TRUE]
           ELSE TriggerClickPageBtn(PagBegin(pg),
                                    IF pg.currentIndex > pg.slideNavi.btns THEN 0
                                    ELSE pg.currentIndex + 1)
  /\ op' = [name |-> "click"]
  /\ PagFrame

\* a click on the desktop list's prev or next button, which is on display and enabled
onClickPrevNextBtn ==
  /\ pg.desktopNavi # NULL
  /\ pg.desktopNavi.prevNextBound
  /\ pg.desktopNavi.naviListItems > DISPLAY_BTN_NUM
  /\ \E direction \in {"prev", "next"}, h \in HelperResults :
       /\ direction \notin pg.disabledBtns
       /\ LET k == pg.desktopNavi
              index == IF direction = "prev" THEN DesktopPaginationNavi_prevIndex(k)
                       ELSE DesktopPaginationNavi_nextIndex(k)
              p1 == Pagination_onClickPrevNextBtn(PagBegin(pg), direction, index, h)
          IN pg' = [p1 EXCEPT !.disabledBtns = @ \cup {direction}]
       /\ op' = [name |-> "click", direction |-> direction, inLoop |-> h.inLoop]
  /\ PagFrame

\* the timeout of disablePrevNextBtnAtMoment
onDisableTimeout ==
  /\ \E b \in pg.disabledBtns : pg' = [PagBegin(pg) EXCEPT !.disabledBtns = @ \ {b}]
  /\ op' = [name |-> "event"]
  /\ PagFrame

NextPag ==
  \/ CallPaginationInit
  \/ CallPaginationActivate
  \/ onWindowResizePage
  \/ onClickSlideBtn
  \/ onClickDesktopBtn
  \/ onClickPrevMobile
  \/ onClickNextMobile
  \/ onClickPrevNextBtn
  \/ onDisableTimeout

SpecPag == InitPag /\ [][NextPag]_vars

\* ------------------------------------------------------------------------
\* A navigator on its own: one instance of Navi, HorizontalSlideNavi or
\* DesktopPaginationNavi, constructed with every callback option set and
\* initialised on a page with nv.items buttons, then driven by its API and
\* by events on the elements it was given.  An event is always possible:
\* its handler runs when it is attached.  nv.log names the callbacks the
\* last step invoked (CLICK_PREVNEXT_BTN stands for a subscriber of that
\* event), nv.calls lists the invocations the Navi made in it, nv.ret is
\* what the method returned, nv.threw tells whether it raised a TypeError,
\* nv.before is the instance before the step and nv.prevOp the step before.
\* ------------------------------------------------------------------------
NaviKinds == {"Navi", "HorizontalSlideNavi", "DesktopPaginationNavi"}

NaviCallbacks ==
  {"mouseoverCallback", "mouseoutCallback", "mousedownCallback", "mouseupCallback",
   "clickCallback", "activateCallback"}

\* the destroy() calls made on one instance
MaxDestroys == 2

\* the steps taken on one navigator
MaxNaviSteps == 3

\* indices passed to activate and getBtn: negative, 0, inside and past the end
NaviIndexes == Indexes \cup {-1}

\* ratios passed to setRatioX and pixel positions passed to setX
SlideRatios == {0, Q}
SlidePositions == {FromInt(-1)}

Names(calls) == [i \in 1 .. Len(calls) |-> calls[i].cb]

construct(kind, items, g, h) ==
  IF kind = "Navi"
  THEN Navi_init(Navi([btns |-> items, callbacks |-> NaviCallbacks]))
  ELSE IF kind = "HorizontalSlideNavi"
  THEN HorizontalSlideNavi_init(
         HorizontalSlideNavi([btns |-> items, callbacks |-> NaviCallbacks]), g)
  ELSE DesktopPaginationNavi_setInstance(
         DesktopPaginationNavi([firstIndex |-> 1, clickCallback |-> TRUE,
                                wrapFound |-> TRUE]),
         items, h)

\* the Navi whose handlers are on the buttons
NaviOf(v) == IF v.kind = "DesktopPaginationNavi" THEN v.obj.navi ELSE v.obj

\* obj with its Navi replaced
WithNavi(v, n) ==
  IF v.kind = "DesktopPaginationNavi" THEN [v.obj EXCEPT !.navi = n] ELSE n

\* the Dragdealer a slide navigator has constructed, also after it let go of it
EngineOf(s) == IF s.dragDealer # NULL THEN s.dragDealer ELSE s.released

WithEngine(s, d) ==
  IF s.dragDealer # NULL THEN [s EXCEPT !.dragDealer = d] ELSE [s EXCEPT !.released = d]

\* the callbacks given to the instance that a call of the inner Navi's reaches: the
\* desktop navigator forwards clickCallback and keeps activateCallback to itself
Reaches(v, names) ==
  IF v.kind = "DesktopPaginationNavi"
  THEN SelectSeq(names, LAMBDA c : c = "clickCallback" /\ v.obj.clickCallback)
  ELSE names

btnEventHandler(n, type, i) ==
  IF type = "click" THEN Navi_clickBtnEventHandler(n, i)
  ELSE IF type = "mouseover" THEN Navi_mouseoverBtnEventHandler(n, i)
  ELSE n

btnEventHandler_calls(n, type, i) ==
  IF type = "click" THEN Navi_clickBtnEventHandler_calls(n, i)
  ELSE IF type = "mouseover" THEN Navi_mouseoverBtnEventHandler_calls(n, i)
  ELSE IF type = "mouseout" THEN Navi_mouseoutBtnEventHandler_calls(n, i)
  ELSE IF type = "mousedown" THEN Navi_mousedownBtnEventHandler_calls(n, i)
  ELSE Navi_mouseupBtnEventHandler_calls(n, i)

\* s with the log of its Dragdealer's last step emptied
SlideBegin(s) ==
  [s EXCEPT !.dragDealer = IF @ # NULL THEN Begin(@) ELSE @,
            !.released = IF @ # NULL THEN Begin(@) ELSE @]

NvBegin(v) ==
  Let(IF v.kind = "HorizontalSlideNavi" THEN SlideBegin(v.obj) ELSE v.obj, LAMBDA o :
    [v EXCEPT !.obj = o, !.before = o, !.log = <<>>, !.calls = <<>>, !.ret = NULL,
              !.threw = FALSE, !.prevOp = op.name])

\* the callbacks a step on the slide navigator's Dragdealer d has invoked
DragCalls(d) == [i \in 1 .. Len(d.cb) |-> d.cb[i].name]

InitNavi ==
  /\ \E kind \in NaviKinds, n \in ItemCounts, g \in Layouts, h \in HelperResults :
       nv = [kind |-> kind, items |-> n, g |-> g, obj |-> construct(kind, n, g, h),
             log |-> <<>>, calls |-> <<>>, ret |-> NULL, threw |-> FALSE, destroys |-> 0,
             before |-> NULL, prevOp |-> "new"]
  /\ op = [name |-> "new"]
  /\ dd = NULL /\ Cursor = NULL /\ dom = NULL /\ budget = 0 /\ pg = NULL /\ pb = NULL /\ tr = NULL

\* one more step of the navigator is taken
NaviFrame ==
  /\ budget < MaxNaviSteps
  /\ budget' = budget + 1
  /\ UNCHANGED <<dd, Cursor, dom, pg, pb, tr>>

\* a step of a slide navigator
SlideFrame ==
  /\ nv.kind = "HorizontalSlideNavi"
  /\ NaviFrame

CallDestroy ==
  /\ nv.destroys < MaxDestroys
  /\ nv' = [NvBegin(nv) EXCEPT
              !.obj = IF nv.kind = "Navi" THEN Navi_destroy(@)
                      ELSE IF nv.kind = "HorizontalSlideNavi" THEN HorizontalSlideNavi_destroy(@)
                      ELSE DesktopPaginationNavi_destroy(@),
              !.threw = nv.kind = "DesktopPaginationNavi"
                          /\ DesktopPaginationNavi_destroy_throws(nv.obj),
              !.destroys = @ + 1]
  /\ op' = [name |-> "destroy"]
  /\ NaviFrame

CallActivate ==
  /\ \E index \in NaviIndexes :
       LET n == NaviOf(nv)
       IN /\ nv' = IF n = NULL THEN NvBegin(nv)
                   ELSE [NvBegin(nv) EXCEPT
                           !.obj = WithNavi(nv, Navi_activate(n, index)),
                           !.calls = Navi_activate_calls(n, index),
                           !.log = Reaches(nv, Names(Navi_activate_calls(n, index)))]
          /\ op' = [name |-> "activate", index |-> index]
  /\ NaviFrame

\* getBtn(index) of the Navi: nv.ret is the position of the button it returns, 0 for null
CallGetBtn ==
  /\ NaviOf(nv) # NULL
  /\ \E index \in NaviIndexes :
       /\ nv' = [NvBegin(nv) EXCEPT !.ret = Navi_getBtn(NaviOf(nv), index)]
       /\ op' = [name |-> "getBtn", index |-> index]
  /\ NaviFrame

CallGetActivatedIndex ==
  /\ nv' = [NvBegin(nv) EXCEPT
              !.ret = IF nv.kind = "DesktopPaginationNavi"
                      THEN DesktopPaginationNavi_getActivatedIndex(nv.obj)
                      ELSE Navi_getActivatedIndex(nv.obj)]
  /\ op' = [name |-> "getActivatedIndex"]
  /\ NaviFrame

\* resize() of the slide navigator called as a method
CallResize ==
  /\ SlideFrame
  /\ nv' = [NvBegin(nv) EXCEPT
              !.obj = HorizontalSlideNavi_resize(
                        IF @.dragDealer # NULL THEN [@ EXCEPT !.dragDealer = Begin(@)] ELSE @,
                        nv.g)]
  /\ op' = [name |-> "resize", event |-> FALSE]

\* a method of the slide navigator that goes to its Dragdealer without a test: m is
\* the method on a live Dragdealer; on the null destroy() leaves it throws
SlideCall(v, m(_)) ==
  IF HorizontalSlideNavi_throws(v.obj)
  THEN [NvBegin(v) EXCEPT !.threw = TRUE]
  ELSE [NvBegin(v) EXCEPT !.obj = m([@ EXCEPT !.dragDealer = Begin(@)])]

CallSetX ==
  /\ SlideFrame
  /\ \E x \in SlidePositions :
       nv' = SlideCall(nv, LAMBDA s : HorizontalSlideNavi_setX(s, x))
  /\ op' = [name |-> "setX"]

CallSetRatioX ==
  /\ SlideFrame
  /\ \E r \in SlideRatios :
       nv' = SlideCall(nv, LAMBDA s : HorizontalSlideNavi_setRatioX(s, r))
  /\ op' = [name |-> "setRatioX"]

CallSlideEnable ==
  /\ SlideFrame
  /\ nv' = SlideCall(nv, HorizontalSlideNavi_enable)
  /\ op' = [name |-> "enable"]

CallSlideDisable ==
  /\ SlideFrame
  /\ nv' = SlideCall(nv, HorizontalSlideNavi_disable)
  /\ op' = [name |-> "disable"]

CallGetRatioX ==
  /\ SlideFrame
  /\ nv' = IF HorizontalSlideNavi_throws(nv.obj)
           THEN [NvBegin(nv) EXCEPT !.threw = TRUE]
           ELSE [NvBegin(nv) EXCEPT !.ret = HorizontalSlideNavi_getRatioX(nv.obj)]
  /\ op' = [name |-> "getRatioX"]

\* a mouse event on the first or the last button
onBtnEvent ==
  /\ \E type \in {"mouseover", "mouseout", "mousedown", "mouseup", "click"},
        i \in {1, nv.items} :
       LET n == NaviOf(nv)
       IN /\ nv' = IF n = NULL \/ ~n.bound THEN NvBegin(nv)
                   ELSE [NvBegin(nv) EXCEPT
                           !.obj = WithNavi(nv, btnEventHandler(n, type, i)),
                           !.calls = btnEventHandler_calls(n, type, i),
                           !.log = Reaches(nv, Names(btnEventHandler_calls(n, type, i)))]
          /\ op' = [name |-> "button", type |-> type, index |-> i]
  /\ NaviFrame

\* a click on the desktop navigator's prev or next button
onPrevNextBtnClick ==
  /\ nv.kind = "DesktopPaginationNavi"
  /\ nv' = IF nv.obj.prevNextBound
           THEN [NvBegin(nv) EXCEPT !.log = <<"CLICK_PREVNEXT_BTN">>]
           ELSE NvBegin(nv)
  /\ op' = [name |-> "prevnext"]
  /\ NaviFrame

\* the window is resized: the Dragdealer's listener, bound first, then the navigator's
onWindowResizeNavi ==
  /\ \E g \in Layouts :
       nv' = IF nv.kind = "HorizontalSlideNavi" /\ EngineOf(nv.obj) # NULL
             THEN Let(IF EngineOf(nv.obj).bound
                      THEN WithEngine(nv.obj, reflow(Begin(EngineOf(nv.obj)), g))
                      ELSE WithEngine(nv.obj, Begin(EngineOf(nv.obj))), LAMBDA s1 :
                  Let(IF s1.resizeBound THEN HorizontalSlideNavi_resize(s1, g) ELSE s1,
                      LAMBDA s2 :
                    [NvBegin(nv) EXCEPT !.g = g, !.obj = s2,
                                        !.log = DragCalls(EngineOf(s2))]))
             ELSE [NvBegin(nv) EXCEPT !.g = g]
  /\ op' = [name |-> "resize", event |-> TRUE]
  /\ NaviFrame

\* the mouse button goes down on the slide navigator's handle, or up anywhere
onPointer ==
  /\ nv.kind = "HorizontalSlideNavi"
  /\ \E type \in {"down", "up"} :
       LET d == EngineOf(nv.obj)
           c == [x |-> 0, y |-> 0]
       IN nv' = IF d # NULL /\ d.bound
                THEN Let(IF type = "down"
                         THEN startDrag([Begin(d) EXCEPT !.activity = FALSE], c)
                         ELSE stopTap(stopDrag(Begin(d), c)), LAMBDA d1 :
                       [NvBegin(nv) EXCEPT !.obj = WithEngine(@, d1), !.log = DragCalls(d1)])
                ELSE NvBegin(nv)
  /\ op' = [name |-> "pointer"]
  /\ NaviFrame

\* an animation frame of the slide navigator's Dragdealer, 25 ms after the previous
\* one, while its subscription stands
onAnimationFrame ==
  /\ nv.kind = "HorizontalSlideNavi"
  /\ EngineOf(nv.obj) # NULL
  /\ EngineOf(nv.obj).interval
  /\ nv' = Let(animateWithRequestAnimationFrame(Begin(EngineOf(nv.obj)),
                                                 [x |-> 0, y |-> 0], 25), LAMBDA d1 :
             [NvBegin(nv) EXCEPT !.obj = WithEngine(@, d1), !.log = <<"frame">> \o DragCalls(d1)])
  /\ op' = [name |-> "frame"]
  /\ SlideFrame

NextNavi ==
  \/ CallDestroy
  \/ CallActivate
  \/ CallGetBtn
  \/ CallGetActivatedIndex
  \/ CallResize
  \/ CallSetX
  \/ CallSetRatioX
  \/ CallSlideEnable
  \/ CallSlideDisable
  \/ CallGetRatioX
  \/ onBtnEvent
  \/ onPrevNextBtnClick
  \/ onWindowResizeNavi
  \/ onPointer
  \/ onAnimationFrame

SpecNavi == InitNavi /\ [][NextNavi]_vars

\* ------------------------------------------------------------------------
\* The desktop navigator's window of DISPLAY_BTN_NUM buttons: a Pagination
\* controller on a window at least BREAKPOINTS.pc wide, with more page
\* buttons than the navigator displays, driven by clicks on the displayed
\* page buttons and on prev / next and by the banner's activate(index,
\* direction).  getLoopedLastIndex follows the wrap rule documented for the
\* right edge; isIndexInLoop may return either truth value and
\* getReverseLoopedFirstIndex either end of the list.
\* ------------------------------------------------------------------------
Range(seq) == {seq[i] : i \in 1 .. Len(seq)}

\* (first + display - 1) mod n, 1-based: 1 instead of 0
getLoopedLastIndex(n, display, first) ==
  Let((first + display - 1) % n, LAMBDA r : IF r = 0 THEN 1 ELSE r)

RECURSIVE visibleLoop(_, _, _)
visibleLoop(n, index, i) ==
  IF i >= DISPLAY_BTN_NUM THEN <<>>
  ELSE <<index>> \o visibleLoop(n, IF n < index + 1 THEN 1 ELSE index + 1, i + 1)

\* the indices of the list items setNaviListItemsPosition shows, from left to right
DesktopPaginationNavi_visible(k) ==
  IF k.naviListItems <= DISPLAY_BTN_NUM THEN [i \in 1 .. k.naviListItems |-> i]
  ELSE visibleLoop(k.naviListItems, k.edgeBtnsIndex.left, 0)

\* numbers of pages with more buttons than are displayed
DeskItemCounts == {DISPLAY_BTN_NUM + 1, 10}

DeskWidths == {BREAKPOINTS.pc, BREAKPOINTS.max}

\* what the index helpers return for a list of n items, a direction and an index
DeskHelperResults(n, direction, index) ==
  [inLoop : BOOLEAN,
   index : IF direction = "next" THEN {getLoopedLastIndex(n, DISPLAY_BTN_NUM, index)}
           ELSE {1, n}]

InitDesk ==
  /\ \E n \in DeskItemCounts, w \in DeskWidths :
       pg = Pagination([wrapFound |-> TRUE, items |-> n, innerWidth |-> w])
  /\ op = [name |-> "new"]
  /\ dd = NULL /\ Cursor = NULL /\ dom = NULL /\ budget = 0 /\ nv = NULL /\ pb = NULL /\ tr = NULL

\* new Pagination(...).init(): setInstance calls getLoopedLastIndex on firstIndex
DeskInit ==
  /\ ~pg.inited
  /\ \E mobile \in BOOLEAN :
       pg' = Pagination_init(PagBegin(pg), mobile,
                             [inLoop |-> TRUE,
                              index |-> getLoopedLastIndex(pg.items, DISPLAY_BTN_NUM,
                                                           pg.currentIndex)])
  /\ op' = [name |-> "init"]
  /\ PagFrame

\* a click on a page button the desktop list displays
DeskClickBtn ==
  /\ pg.inited
  /\ \E i \in Range(DesktopPaginationNavi_visible(pg.desktopNavi)) :
       /\ pg' = [Pagination_clickCallback(PagBegin(pg), i,
                                           DesktopPaginationNavi_getActivatedIndex(pg.desktopNavi))
                   EXCEPT !.onPc = Navi_getBtn(pg.desktopNavi.navi, i),
                          !.desktopNavi.navi = Navi_clickBtnEventHandler(@, i)]
       /\ op' = [name |-> "button", index |-> i]
  /\ PagFrame

\* a click on prev or next while the button is enabled
DeskClickPrevNext ==
  /\ pg.inited
  /\ \E direction \in {"prev", "next"} :
       /\ direction \notin pg.disabledBtns
       /\ \E index \in {IF direction = "prev"
                         THEN DesktopPaginationNavi_prevIndex(pg.desktopNavi)
                         ELSE DesktopPaginationNavi_nextIndex(pg.desktopNavi)} :
            \E h \in DeskHelperResults(pg.items, direction, index) :
              /\ pg' = [Pagination_onClickPrevNextBtn(PagBegin(pg), direction, index, h)
                          EXCEPT !.disabledBtns = @ \cup {direction}]
              /\ op' = [name |-> "prevnext", direction |-> direction, index |-> index,
                        inLoop |-> h.inLoop, edges |-> pg.desktopNavi.edgeBtnsIndex,
                        active |-> pg.desktopNavi.navi.activateIndex]
  /\ PagFrame

\* the banner changes its slide and calls activate(index, direction)
DeskActivate ==
  /\ pg.inited
  /\ \E index \in 1 .. pg.items, direction \in {"prev", "next"} :
       \E h \in DeskHelperResults(pg.items, direction, index) :
         /\ pg' = Pagination_activate(PagBegin(pg), index, direction, h)
         /\ op' = [name |-> "activate", direction |-> direction, index |-> index,
                   inLoop |-> h.inLoop, edges |-> pg.desktopNavi.edgeBtnsIndex,
                   active |-> pg.desktopNavi.navi.activateIndex]
  /\ PagFrame

\* the timeout of disablePrevNextBtnAtMoment
DeskDisableTimeout ==
  /\ \E b \in pg.disabledBtns : pg' = [PagBegin(pg) EXCEPT !.disabledBtns = @ \ {b}]
  /\ op' = [name |-> "event"]
  /\ PagFrame

NextDesk ==
  \/ DeskInit
  \/ DeskClickBtn
  \/ DeskClickPrevNext
  \/ DeskActivate
  \/ DeskDisableTimeout

SpecDesk == InitDesk /\ [][NextDesk]_vars

\* ------------------------------------------------------------------------
\* PromotionBanner: the auto-rotation timer            (part_002 3551-3990)
\* b is the banner with its surroundings: the instance (totalPageNo,
\* currentPageNo, isMobileEnv, rollingBannerIntervalId), the window's live
\* interval timers (timers, the handles setInterval has returned and
\* clearInterval has not yet taken; handles counts the setInterval calls;
\* the handles are positive and 0 stands for the null in rollingBannerIntervalId),
\* the handlers on the wrap element (bound) and the pointers: where the mouse
\* is (outside the banner, on the wrap element itself, on one of its list
\* items) and which fingers touch the banner.  A page for a mobile or tablet
\* body is used by touch, any other by the mouse.
\* ------------------------------------------------------------------------
PromotionBanner(options) ==
  [items |-> options.items, isMobileEnv |-> options.isMobileEnv,
   inited |-> FALSE, currentPageNo |-> 0, totalPageNo |-> 0,
   rollingBannerIntervalId |-> 0,
   timers |-> {}, handles |-> 0, bound |-> FALSE,
   mouse |-> options.mouse, touches |-> {}]

\* global.clearInterval(id)
clearInterval(b, id) == [b EXCEPT !.timers = @ \ {id}]

\* global.setInterval(...): a handle no earlier call has returned
setInterval(b) == [b EXCEPT !.timers = @ \cup {b.handles + 1}, !.handles = @ + 1]

\* isDefined and truthy are imported helpers; whatever isDefined answers for null,
\* clearInterval(null) clears nothing
PromotionBanner_setRollingBannerInterval(b, flag) ==
  LET b1 == IF b.rollingBannerIntervalId # 0
            THEN [clearInterval(b, b.rollingBannerIntervalId)
                    EXCEPT !.rollingBannerIntervalId = 0]
            ELSE b
  IN IF flag
     THEN [setInterval(b1) EXCEPT !.rollingBannerIntervalId = b1.handles + 1]
     ELSE b1

PromotionBanner_setPromotionBannerRolling(b) ==
  IF b.totalPageNo <= 1 THEN b
  ELSE [PromotionBanner_setRollingBannerInterval(b, TRUE) EXCEPT !.bound = TRUE]

\* init(), setInstance() and addEvent() as far as the pages and the timer go
PromotionBanner_init(b) ==
  IF b.items <= 0 THEN [b EXCEPT !.inited = TRUE]
  ELSE PromotionBanner_setPromotionBannerRolling(
         [b EXCEPT !.inited = TRUE, !.currentPageNo = 1, !.totalPageNo = b.items])

PromotionBanner_activateNextPromotionBanner(b) ==
  [b EXCEPT !.currentPageNo = IF @ + 1 > b.totalPageNo THEN 1 ELSE @ + 1]

\* the handlers setPromotionBannerRolling puts on the wrap element
PromotionBanner_onPause(b) == PromotionBanner_setRollingBannerInterval(b, FALSE)
PromotionBanner_onResume(b) == PromotionBanner_setRollingBannerInterval(b, TRUE)

\* ------------------------------------------------------------------------
\* The banner on a page: constructed, initialised once, then left to the
\* mouse, the fingers and its timers
\* ------------------------------------------------------------------------
\* numbers of banner items: none, one, several
BannerItemCounts == {0, 1, 3}

MousePlaces == {"outside", "wrap", "item"}

Fingers == {1, 2}

\* the steps taken on one banner
MaxBannerSteps == 5

OverBanner(place) == place # "outside"

InitBanner ==
  /\ \E n \in BannerItemCounts, m \in BOOLEAN :
       \E place \in IF m THEN {"outside"} ELSE {"outside", "wrap"} :
         pb = PromotionBanner([items |-> n, isMobileEnv |-> m, mouse |-> place])
  /\ op = [name |-> "new"]
  /\ dd = NULL /\ Cursor = NULL /\ dom = NULL /\ budget = 0 /\ pg = NULL
  /\ nv = NULL /\ tr = NULL

BannerFrame ==
  /\ budget < MaxBannerSteps
  /\ budget' = budget + 1
  /\ UNCHANGED <<dd, Cursor, dom, pg, nv, tr>>

CallBannerInit ==
  /\ ~pb.inited
  /\ pb' = PromotionBanner_init(pb)
  /\ op' = [name |-> "init"]
  /\ BannerFrame

\* the mouse moves to another element: mouseout on the one it leaves, then mouseover
\* on the one it enters; both events bubble to the wrap element
onMouseMove ==
  /\ ~pb.isMobileEnv
  /\ \E place \in MousePlaces \ {pb.mouse} :
       LET handled == pb.bound /\ ~pb.isMobileEnv
           b1 == IF handled /\ OverBanner(pb.mouse) THEN PromotionBanner_onResume(pb) ELSE pb
           b2 == IF handled /\ OverBanner(place) THEN PromotionBanner_onPause(b1) ELSE b1
       IN pb' = [b2 EXCEPT !.mouse = place]
  /\ op' = [name |-> "mouse"]
  /\ BannerFrame

\* a finger goes down on the banner
onTouchStart ==
  /\ pb.isMobileEnv
  /\ \E f \in Fingers \ pb.touches :
       pb' = [(IF pb.bound THEN PromotionBanner_onPause(pb) ELSE pb)
                EXCEPT !.touches = @ \cup {f}]
  /\ op' = [name |-> "touchstart"]
  /\ BannerFrame

\* a finger is lifted from the banner
onTouchEnd ==
  /\ pb.isMobileEnv
  /\ \E f \in pb.touches :
       pb' = [(IF pb.bound THEN PromotionBanner_onResume(pb) ELSE pb)
                EXCEPT !.touches = @ \ {f}]
  /\ op' = [name |-> "touchend"]
  /\ BannerFrame

\* a live interval timer fires
onRollingInterval ==
  /\ \E id \in pb.timers : pb' = PromotionBanner_activateNextPromotionBanner(pb)
  /\ op' = [name |-> "interval"]
  /\ BannerFrame

NextBanner ==
  \/ CallBannerInit
  \/ onMouseMove
  \/ onTouchStart
  \/ onTouchEnd
  \/ onRollingInterval

SpecBanner == InitBanner /\ [][NextBanner]_vars

\* ------------------------------------------------------------------------
\* tram: the queue of a Transition                     (part_002 1351-1534)
\* t is a Transition with the frame loop's Delay timers: queue (the steps
\* pushed and not yet shifted), active, timer (the handle of the Delay in
\* this.timer, 0 before the first one; created counts the Delays), delays
\* (the Delays on the render list, each with its complete callback: "next"
\* or "noop") and begun, the calls of start() so far.  A step is what was
\* passed as options, by its type:
\*   "none"      a falsy value: undefined, null, 0, ''
\*   "number"    a positive number of milliseconds
\*   "string"    transition settings for add(), or 'redraw'
\*   "stop"      the string 'stop' or 'hide'
\*   "function"  a function that leaves the transition alone
\*   "object"    properties of which one has a transition with a time span
\*   "bare"      properties without a time span
\* ------------------------------------------------------------------------
Transition ==
  [queue |-> <<>>, active |-> FALSE, timer |-> 0, created |-> 0, delays |-> <<>>,
   begun |-> <<>>, pushed |-> 0]

Falsy(options) == options = "none"

\* this.timer && this.timer.destroy(): the Delay leaves the render list
destroyTimer(t) ==
  [t EXCEPT !.delays = [id \in DOMAIN t.delays \ {t.timer} |-> t.delays[id]]]

\* this.timer = new Delay({..., complete: complete}); init() plays it
newDelay(t, complete) ==
  [t EXCEPT !.timer = t.created + 1, !.created = @ + 1,
            !.delays = [id \in DOMAIN t.delays \cup {t.created + 1} |->
                          IF id = t.created + 1 THEN complete ELSE t.delays[id]]]

Transition_stop(t) == [destroyTimer(t) EXCEPT !.queue = <<>>, !.active = FALSE]

\* the start of a step is put on record
Begins(t, step, fromQueue) ==
  [t EXCEPT !.begun = Append(@, [id |-> step.id, fromQueue |-> fromQueue])]

RECURSIVE Transition_start(_, _, _)
RECURSIVE Transition_next(_)

\* a start that leaves the queue alone when called from outside it
Transition_start_KeepsQueue(t, step, fromQueue) ==
  LET t0 == Begins(t, step, fromQueue)
  IN IF Falsy(step.options) THEN t0
     ELSE IF step.options = "number" /\ fromQueue
     THEN [newDelay(t0, "next") EXCEPT !.active = TRUE]
     ELSE IF step.options \in {"string", "stop"} /\ fromQueue
     THEN Transition_next(IF step.options = "stop" THEN Transition_stop(t0) ELSE t0)
     ELSE IF step.options = "object"
     THEN [newDelay(t0, IF fromQueue THEN "next" ELSE "noop") EXCEPT !.active = TRUE]
     ELSE t0

Transition_start(t, step, fromQueue) ==
  LET t0 == Begins(t, step, fromQueue)
      t1 == IF ~fromQueue THEN [destroyTimer(t0) EXCEPT !.queue = <<>>, !.active = FALSE]
            ELSE t0
  IN IF Falsy(step.options) THEN t0
     ELSE IF step.options = "number" /\ fromQueue
     THEN [newDelay(t1, "next") EXCEPT !.active = TRUE]
     ELSE IF step.options \in {"string", "stop"} /\ fromQueue
     THEN Transition_next(IF step.options = "stop" THEN Transition_stop(t1) ELSE t1)
     ELSE IF step.options = "object"
     THEN [newDelay(t1, IF fromQueue THEN "next" ELSE "noop") EXCEPT !.active = TRUE]
     ELSE t1

Transition_next(t) ==
  LET t1 == [destroyTimer(t) EXCEPT !.active = FALSE]
  IN IF t1.queue = <<>> THEN t1
     ELSE Transition_start([t1 EXCEPT !.queue = Tail(@)], Head(t1.queue), TRUE)

\* wait(time): time is 0 ("none") or positive ("number")
Transition_wait(t, step) ==
  IF t.active THEN [t EXCEPT !.queue = Append(@, step)]
  ELSE [newDelay(t, "next") EXCEPT !.active = TRUE]

\* the complete callback is set on the Delay in this.timer, on the render list or not
Transition_then(t, step) ==
  IF ~t.active THEN t
  ELSE [t EXCEPT !.queue = Append(@, step),
                 !.delays = [id \in DOMAIN t.delays |->
                               IF id = t.timer THEN "next" ELSE t.delays[id]]]

\* Delay.render once the duration has passed: complete.call(context), this.destroy()
Delay_render(t, id) ==
  LET t1 == IF t.delays[id] = "next" THEN Transition_next(t) ELSE t
  IN [t1 EXCEPT !.delays = [i \in DOMAIN t1.delays \ {id} |-> t1.delays[i]]]

\* ------------------------------------------------------------------------
\* A Transition driven by its public methods and by the frame loop
\* ------------------------------------------------------------------------
StepOptions == {"none", "number", "string", "stop", "function", "object", "bare"}

\* the calls made on one Transition
MaxTramSteps == 5

\* the step a call passes: the next one in the order of the calls
NewStep(options) == [id |-> tr.pushed + 1, options |-> options]

InitTram ==
  /\ tr = Transition
  /\ op = [name |-> "new"]
  /\ dd = NULL /\ Cursor = NULL /\ dom = NULL /\ budget = 0 /\ pg = NULL
  /\ nv = NULL /\ pb = NULL

TramFrame ==
  /\ budget < MaxTramSteps
  /\ budget' = budget + 1
  /\ UNCHANGED <<dd, Cursor, dom, pg, nv, pb>>

CallStart ==
  /\ \E options \in StepOptions :
       /\ tr' = Transition_start([tr EXCEPT !.pushed = @ + 1], NewStep(options), FALSE)
       /\ op' = [name |-> "start", options |-> options]
  /\ TramFrame

CallWait ==
  /\ \E options \in {"none", "number"} :
       /\ tr' = Transition_wait([tr EXCEPT !.pushed = @ + 1], NewStep(options))
       /\ op' = [name |-> "wait"]
  /\ TramFrame

CallThen ==
  /\ \E options \in StepOptions :
       /\ tr' = Transition_then([tr EXCEPT !.pushed = @ + 1], NewStep(options))
       /\ op' = [name |-> "then"]
  /\ TramFrame

CallNext ==
  /\ tr' = Transition_next(tr)
  /\ op' = [name |-> "next"]
  /\ TramFrame

CallStop ==
  /\ tr' = Transition_stop(tr)
  /\ op' = [name |-> "stop"]
  /\ TramFrame

\* the frame loop renders a Delay whose duration has passed
onDelayComplete ==
  /\ \E id \in DOMAIN tr.delays :
       tr' = Delay_render(tr, id)
  /\ op' = [name |-> "complete"]
  /\ TramFrame

NextTram ==
  \/ CallStart
  \/ CallWait
  \/ CallThen
  \/ CallNext
  \/ CallStop
  \/ onDelayComplete

SpecTram == InitTram /\ [][NextTram]_vars


\* ------------------------------------------------------------------------
\* Properties of the drag engine
\* ------------------------------------------------------------------------
Clamp01(v) == Min(Max(v, 0), Q)

\* s is a step ratio of d and none of d's step ratios is nearer to v
IsNearestStep(d, v, s) ==
  /\ \E i \in DOMAIN d.stepRatios : d.stepRatios[i] = s
  /\ \A j \in DOMAIN d.stepRatios : Abs(s - v) <= Abs(d.stepRatios[j] - v)

\* the instance moves values to the step grid in its present state
Stepping(d) == d.options.steps > 1 /\ ((~d.dragging /\ ~d.tapping) \/ d.options.snap)

\* v is what the instance makes of the ratio r: r clamped to [0, 1] and, when the
\* instance is stepping, moved to a nearest step
IsProperOf(d, r, v) ==
  IF Stepping(d) THEN IsNearestStep(d, Clamp01(r), v) ELSE v = Clamp01(r)

PixelOffset(ratio, range, padding) == MathRound(FMul(ratio, range)) + padding

StopDragRan(d) == \E i \in DOMAIN d.cb : d.cb[i].name = "dragStopCallback"

\* the target stopDrag handed to the drag-stop callback
StopDragTarget(d) ==
  (CHOOSE e \in { d.cb[i] : i \in DOMAIN d.cb } : e.name = "dragStopCallback").value

AfterSetValueSnap == op.name = "setValue" /\ op.snap /\ dd.live

C2_TargetWithinBounds ==
  (dd.live /\ ~dd.dragging /\ ~dd.tapping) =>
    /\ dd.value_target[1] >= 0 /\ dd.value_target[1] <= Q
    /\ dd.value_target[2] >= 0 /\ dd.value_target[2] <= Q

\* a loose drag has just been released beyond the right edge: current still holds
\* the loose position, the target is back at 1
C2_Witness ==
  /\ dd.live /\ ~dd.dragging /\ ~dd.tapping
  /\ dd.options.loose
  /\ StopDragRan(dd)
  /\ dd.value_current[1] > Q
  /\ dd.value_target[1] = Q

\* where stopDrag aims before the bounds apply, computed from the state it starts in
ReleaseAim(d) ==
  IF d.options.slide
  THEN <<d.value_current[1] + 4 * d.change[1], d.value_current[2] + 4 * d.change[2]>>
  ELSE d.value_current

\* C3 (as the code has it): when stopDrag runs with slide enabled its target is
\* current plus 4 times the change recorded by the last tick of a drag, with slide
\* disabled it is current; in both cases the result is clamped to [0, 1], whether
\* or not loose is set, and moved to the nearest step when steps > 1 (unless a tap
\* is in progress and the snap option is off).
C3_StopDragTarget ==
  [][StopDragRan(dd') =>
       /\ IsProperOf([dd EXCEPT !.dragging = FALSE], ReleaseAim(dd)[1], StopDragTarget(dd')[1])
       /\ IsProperOf([dd EXCEPT !.dragging = FALSE], ReleaseAim(dd)[2], StopDragTarget(dd')[2])]_vars

\* C3 as the specification states it: the result is clamped to [0, 1], or to the
\* loose bounds (a quarter of the excess kept) when loose is enabled.
C3_AsStated ==
  [][StopDragRan(dd') =>
       LET aim == ReleaseAim(dd)[1]
       IN StopDragTarget(dd')[1] =
            IF dd.options.loose
            THEN Clamp01(aim) + FDiv(aim - Clamp01(aim), FromInt(4))
            ELSE Clamp01(aim)]_vars

\* a drag that moved half the range in its last tick has been released: the target
\* lies beyond the release position, at the bound
C3_Witness ==
  /\ StopDragRan(dd)
  /\ dd.options.slide
  /\ dd.change[1] = Q \div 2
  /\ dd.value_current[1] = Q \div 2
  /\ StopDragTarget(dd)[1] = Q

\* an animation frame runs while a drag is in progress
DragTick ==
  /\ dd.interval /\ dd.dragging
  /\ \E dt \in TimeOffsets : dd' = animateWithRequestAnimationFrame(Begin(dd), Cursor, dt)

\* the ratio of the live pointer offset on the x axis
RawRatio ==
  IF dd.bounds.availWidth = 0 THEN 0
  ELSE FDiv(Cursor.x - dd.offset_wrapper[1] - dd.offset_mouse[1] - dd.bounds.left,
            dd.bounds.availWidth)

\* C4 (as the code has it): a tick during a drag sets the target to
\* proper + (raw - proper) / 4 with the loose option and to proper without it, where
\* raw is the ratio of the live pointer offset and proper is raw clamped to [0, 1]
\* and, when the snap option is set with steps > 1, moved to the nearest step.
C4_DragTickTarget ==
  [][DragTick =>
       \E proper \in 0..Q :
         /\ IsProperOf(dd, RawRatio, proper)
         /\ dd'.value_target[1] =
              IF dd.options.loose
              THEN proper + FDiv(RawRatio - proper, FromInt(4))
              ELSE proper]_vars

\* C4 as the specification states it: clamped is raw clamped to [0, 1], nothing more.
C4_AsStated ==
  [][DragTick =>
       dd'.value_target[1] =
         IF dd.options.loose
         THEN Clamp01(RawRatio) + FDiv(RawRatio - Clamp01(RawRatio), FromInt(4))
         ELSE Clamp01(RawRatio)]_vars

\* a loose drag holds the handle beyond the right edge: the pointer is at 1.5, the
\* target at 1.125
C4_Witness ==
  /\ dd.dragging /\ dd.options.loose /\ dd.options.steps = 0
  /\ dd.value_target[1] = Q + Q \div 8
  /\ dd.value_current = dd.value_target

\* an animation frame runs, dt > 0 ms after the previous one, with no drag in progress
IdleTick ==
  /\ dd.interval /\ dd.timeStamp /\ ~dd.dragging
  /\ \E dt \in TimeOffsets : dd' = animateWithRequestAnimationFrame(Begin(dd), Cursor, dt)

Distance(d) == Abs(d.value_target[1] - d.value_current[1])

\* C5: with no drag active, every animation frame brings current nearer to target
\* while the two differ, so that repeated frames make them equal.
C5_IdleTicksConverge ==
  [][(IdleTick /\ Distance(dd) # 0) => Distance(dd') < Distance(dd)]_vars

\* the delta stopDrag handed to the drag-stop callback
StopDragDelta(d) ==
  (CHOOSE e \in { d.cb[i] : i \in DOMAIN d.cb } : e.name = "dragStopCallback").delta

\* a pointer-down on the wrapper starts a tap
TapStarts == ~dd.tapping /\ dd'.tapping

\* C26: on an axis whose available range is zero (handle as wide or as high as the
\* padded wrapper), the delta stopDrag reports is 0 and the ratio a drag tick or a
\* tap computes from the pointer's pixel offset is 0, so the target stays a number.
C26_ZeroRange ==
  [][/\ StopDragRan(dd') =>
          /\ dd.bounds.availWidth = 0 => StopDragDelta(dd')[1] = 0
          /\ dd.bounds.availHeight = 0 => StopDragDelta(dd')[2] = 0
     /\ (DragTick \/ TapStarts) =>
          /\ dd.bounds.availWidth = 0 => dd'.value_target[1] = 0
          /\ dd.bounds.availHeight = 0 => dd'.value_target[2] = 0]_vars

\* a drag on a wrapper as wide as its handle is released away from where it began
C26_Witness ==
  /\ StopDragRan(dd)
  /\ dd.bounds.availWidth = 0
  /\ Cursor.x # dd.dragStartPosition[1]
  /\ StopDragDelta(dd)[1] = 0
  /\ dd.value_target[1] = 0

\* the invocations of the animation callback by the running operation
AnimationCalls(d) == SelectSeq(d.cb, LAMBDA e : e.name = "animationCallback")

\* the value the animation callback is given: current, moved to the step grid when
\* the snap option is set with steps > 1
Rendered(d) ==
  IF d.options.snap /\ d.options.steps > 1
  THEN getClosestSteps(d, d.value_current) ELSE d.value_current

C27_Quiet ==
  /\ dd.dragging /\ dd.options.snap /\ dd.options.steps > 1
  /\ dd.value_current[1] = Q + Q \div 8
  /\ dd.value_prev = <<Q, 0>>
  /\ AnimationCalls(dd) = <<>>

\* the invocations of the drag-stop callback by the running operation
DragStopCalls(d) == SelectSeq(d.cb, LAMBDA e : e.name = "dragStopCallback")

\* a pointer-up ends a tap while no drag is in progress
TapStops == dd.tapping /\ ~dd.dragging /\ ~dd'.tapping

\* C30: every invocation of the drag-stop callback comes after an invocation of the
\* drag-start callback with no other drag-stop invocation between the two, no
\* operation invokes it twice, and setValue, setStep, the start of a tap and the
\* end of a tap invoke it never.
C30_DragStopAfterDragStart ==
  [][/\ \A i \in DOMAIN DragStopCalls(dd') : DragStopCalls(dd')[i].started
     /\ Len(DragStopCalls(dd')) <= 1
     /\ (op'.name \in {"setValue", "setStep"} \/ TapStarts \/ TapStops)
          => DragStopCalls(dd') = <<>>]_vars

\* a drag has been released: the drag-stop callback was invoked, after the
\* drag-start callback
C30_Witness ==
  /\ DragStopCalls(dd) # <<>>
  /\ DragStopCalls(dd)[1].started
  /\ ~dd.dragging /\ ~dd.dragStarted

\* the step ratio nearest to v, the one of lower index when two are equally near
NearestStep(d, v) ==
  CHOOSE s \in Range(d.stepRatios) :
    \A t \in Range(d.stepRatios) :
      Abs(s - v) < Abs(t - v) \/ (Abs(s - v) = Abs(t - v) /\ s <= t)

\* C23: with steps > 1, getClosestStep(v) returns the step ratio with the smallest
\* absolute difference from v, the one of lower index on a tie, for the values the
\* engine applies it to; a target at rest (no drag, no tap) is such a step; and
\* with the snap option the handle is rendered at the step nearest to current.
C23_ClosestStep ==
  (dd.live /\ dd.options.steps > 1) =>
    /\ \A a \in 1..2 :
         /\ getClosestStep(dd, dd.value_current[a]) = NearestStep(dd, dd.value_current[a])
         /\ getClosestStep(dd, dd.value_target[a]) = NearestStep(dd, dd.value_target[a])
         /\ (~dd.dragging /\ ~dd.tapping) =>
              dd.value_target[a] = NearestStep(dd, dd.value_target[a])
    /\ dd.options.snap =>
         dd.offset_current[1] = PixelOffset(NearestStep(dd, dd.value_current[1]),
                                            dd.bounds.availWidth, dd.bounds.left)

\* the same for values less than 1 away from the nearest step ratio
C23_WithinOneOfAStep ==
  (dd.live /\ dd.options.steps > 1) =>
    /\ \A a \in 1..2 :
         /\ Abs(dd.value_current[a] - NearestStep(dd, dd.value_current[a])) < Q =>
              getClosestStep(dd, dd.value_current[a]) = NearestStep(dd, dd.value_current[a])
         /\ Abs(dd.value_target[a] - NearestStep(dd, dd.value_target[a])) < Q =>
              getClosestStep(dd, dd.value_target[a]) = NearestStep(dd, dd.value_target[a])
         /\ (~dd.dragging /\ ~dd.tapping) =>
              dd.value_target[a] = NearestStep(dd, dd.value_target[a])
    /\ (dd.options.snap /\ dd.value_current[1] < 2 * Q) =>
         dd.offset_current[1] = PixelOffset(NearestStep(dd, dd.value_current[1]),
                                            dd.bounds.availWidth, dd.bounds.left)

\* p is a whole number of pixels and no whole number is nearer to ratio * range
\* (ratio * range is taken exactly, in units of 1 / Q^2)
IsRoundedProduct(ratio, range, p) ==
  /\ p % Q = 0
  /\ 2 * Abs(p * Q - ratio * range) <= Q * Q

\* C25: availWidth is the wrapper's width less the left padding, the right padding
\* and the handle's width, availHeight likewise with top, bottom and the heights;
\* the handle offset of the current ratio r is round(r * availWidth) + left (and
\* round(r * availHeight) + top), r being the nearest step when the snap option
\* is set.  A 200px wrapper with a 50px handle and no padding has availWidth 150
\* and puts the ratio 0.5 at 75px.
C25_AvailableRange ==
  dd.live =>
    /\ dd.bounds.availWidth =
         dom.wrapperW - dd.options.left - dd.options.right - dom.handleW
    /\ dd.bounds.availHeight =
         dom.wrapperH - dd.options.top - dd.options.bottom - dom.handleH
    /\ IsRoundedProduct(Rendered(dd)[1], dd.bounds.availWidth,
                        dd.offset_current[1] - dd.options.left)
    /\ IsRoundedProduct(Rendered(dd)[2], dd.bounds.availHeight,
                        dd.offset_current[2] - dd.options.top)
    /\ (dom.wrapperW = FromInt(200) /\ dom.handleW = FromInt(50)
          /\ dd.options.left = 0 /\ dd.options.right = 0) =>
         /\ dd.bounds.availWidth = FromInt(150)
         /\ dd.value_current[1] = Q \div 2 => dd.offset_current[1] = FromInt(75)

\* setValue(0.5, 0.5, true) on the padded engine: the ranges are 100px and 50px and
\* the handle is put at 50 + 25 = 75px from the left and 25 + 25 = 50px from the top
C25_Witness ==
  /\ op.name = "setValue" /\ op.x = Q \div 2
  /\ dd.options.left = FromInt(25) /\ dd.options.top = FromInt(25)
  /\ dd.bounds.availWidth = FromInt(100) /\ dd.bounds.availHeight = FromInt(50)
  /\ dd.style = <<FromInt(75), FromInt(50)>>

\* setValue(0.5, 0.5, true) without paddings: the range is 150px, the handle at 75px
C25_Example ==
  /\ op.name = "setValue" /\ op.x = Q \div 2
  /\ dd.options.left = 0 /\ dd.options.right = 0 /\ ~dd.options.snap
  /\ dd.bounds.availWidth = FromInt(150)
  /\ dd.style[1] = FromInt(75)

\* setValue(0.25, 0, true) without paddings: 37.5px is rendered at 38px
C25_HalfPixel ==
  /\ op.name = "setValue" /\ op.x = Q \div 4
  /\ dd.bounds.availWidth = FromInt(150) /\ ~dd.options.snap /\ dd.options.steps = 0
  /\ dd.style[1] = FromInt(38)

\* the ratios that put the centre of the handle under the pointer at c
CentreRatio(d, c, g) ==
  <<IF d.bounds.availWidth = 0 THEN 0
    ELSE FDiv(c.x - WrapperPos[1] - g.handleW \div 2 - d.bounds.left, d.bounds.availWidth),
    IF d.bounds.availHeight = 0 THEN 0
    ELSE FDiv(c.y - WrapperPos[2] - g.handleH \div 2 - d.bounds.top, d.bounds.availHeight)>>

\* a pointer-down on the wrapper reaches an engine that takes taps
TapTaken == op'.name = "wrapperDown" /\ ~dd.disabled /\ dd.options.tapping

\* a pointer-down on the wrapper reaches an engine that takes none
TapRefused == op'.name = "wrapperDown" /\ (dd.disabled \/ ~dd.options.tapping)

\* a pointer-up reaches an engine with a tap in progress
TapReleased == op'.name = "pointerUp" /\ ~dd.disabled /\ dd.tapping

\* C28 (as the code has it): a pointer-down on the wrapper of an enabled engine with
\* the tapping option sets tapping, leaves dragging as it was, and sets the target
\* to the ratio that centres the handle on the pointer, clamped to [0, 1] (and
\* moved to the nearest step when the snap option is set with steps > 1); the
\* following pointer-up clears tapping and sets the target to the current value
\* clamped to [0, 1] and, when steps > 1, moved to the nearest step; on a disabled
\* engine or with tapping off the pointer-down changes nothing.
C28_TapTargets ==
  [][/\ TapTaken =>
          /\ dd'.tapping /\ dd'.dragging = dd.dragging
          /\ \A a \in 1..2 :
               IsProperOf(dd', CentreRatio(dd, Cursor', dom)[a], dd'.value_target[a])
     /\ TapReleased =>
          /\ ~dd'.tapping /\ ~dd'.dragging
          /\ \A a \in 1..2 : IsProperOf(dd', dd.value_current[a], dd'.value_target[a])
     /\ TapRefused => dd' = Begin(dd)]_vars

\* C28 as the specification states it: the target is the ratio that centres the
\* handle on the pointer, and after the pointer-up it is the current value.
C28_AsStated ==
  [][/\ TapTaken =>
          /\ dd'.tapping /\ dd'.dragging = dd.dragging
          /\ dd'.value_target = CentreRatio(dd, Cursor', dom)
     /\ TapReleased =>
          /\ ~dd'.tapping
          /\ dd'.value_target = dd.value_current
     /\ TapRefused => dd' = Begin(dd)]_vars

\* a tap on the middle of a two-step engine is released after the handle got
\* there: the target leaves the current value 0.5 for the step 0
C28_Witness ==
  /\ op.name = "pointerUp"
  /\ DragCalls(dd) = <<"callback">>
  /\ dd.options.steps = 2 /\ ~dd.tapping
  /\ dd.value_current[1] = Q \div 2
  /\ dd.value_target[1] = 0

\* a pointer-down on the wrapper with the tapping option off: nothing has changed
C28_Refused ==
  /\ op.name = "wrapperDown"
  /\ ~dd.options.tapping /\ ~dd.tapping
  /\ dd.value_target = <<0, 0>>

\* where the handle is and where it is heading
HandleState(d) == <<d.value_current, d.value_target, d.offset_current, d.style>>

\* a pointer-down on the handle or on the wrapper
PointerDown == op'.name \in {"handleDown", "wrapperDown"}

\* C29: disable() sets the disabled flag and leaves current, target and the rendered
\* offset as they are; a pointer-down on the handle or the wrapper of a disabled
\* engine starts neither a drag nor a tap and moves nothing; enable() clears the
\* flag without changing the position, and from then on a pointer-down on the
\* handle starts a drag and one on the wrapper (tapping option on) a tap.
C29_DisableKeepsPosition ==
  [][/\ op'.name = "disable" =>
          dd'.disabled /\ HandleState(dd') = HandleState(dd)
     /\ (PointerDown /\ dd.disabled) =>
          /\ dd'.dragging = dd.dragging /\ dd'.tapping = dd.tapping
          /\ HandleState(dd') = HandleState(dd)
     /\ op'.name = "enable" =>
          ~dd'.disabled /\ HandleState(dd') = HandleState(dd)
     /\ (op'.name = "handleDown" /\ ~dd.disabled) => dd'.dragging
     /\ (op'.name = "wrapperDown" /\ ~dd.disabled /\ dd.options.tapping) =>
          dd'.tapping]_vars

\* an engine that has been moved is disabled: the handle stays at 75px
C29_Witness ==
  /\ op.name = "disable" /\ dd.disabled
  /\ dd.value_current[1] = Q \div 2 /\ dd.value_target[1] = Q \div 2
  /\ dd.style[1] = FromInt(75)

\* an engine constructed disabled has been enabled and takes a drag
C29_Enabled ==
  /\ op.name = "handleDown"
  /\ dd.options.disabled /\ ~dd.disabled
  /\ dd.dragging

\* a pointer-down on the handle of a disabled engine: no drag begins
C29_Refused ==
  /\ op.name = "handleDown"
  /\ dd.disabled /\ ~dd.dragging /\ ~dd.tapping

\* the distance between the double x and the integer i, in units of 2^-60
DblOff(x, i) ==
  LET diff == IF DblLess(x, DblInt(i)) THEN DblMinus(DblInt(i), x)
              ELSE DblMinus(x, DblInt(i))
  IN IF diff[1] = 0 /\ diff[2] = 0 THEN diff[3] ELSE Limb

\* x is i / n as nearly as a double below 1 can be: x * n, taken exactly, is within
\* n * 2^-54 of i
NearQuotient(x, i, n) == DblOff(DblNorm(x[1] * n, x[2] * n, x[3] * n), i) <= 64 * n

\* C22: for steps = N >= 1 the table of step ratios has exactly N entries; for
\* N > 1 entry i (0-based) is the double i / (N - 1), the first is exactly 0, the
\* last exactly 1 and the entries ascend strictly; for N = 1 the single entry is
\* 0; with steps = 0 the table is empty.
C22_StepRatios ==
  LET N == dd.options.steps
      t == dd.stepRatios
  IN /\ Len(t) = N
     /\ N = 1 => t = <<DblInt(0)>>
     /\ N > 1 =>
          /\ t[1] = DblInt(0) /\ t[N] = DblInt(1)
          /\ \A i \in 1 .. N - 1 : DblLess(t[i], t[i + 1])
          /\ \A i \in 1 .. N : NearQuotient(t[i], i - 1, N - 1)

\* a table of 23 entries, of which 1/22 is not a binary fraction
C22_Witness ==
  /\ dd.options.steps = 23
  /\ Len(dd.stepRatios) = 23
  /\ dd.stepRatios[2] # DblInt(0) /\ DblOff(DblNorm(dd.stepRatios[2][1] * 22,
                                                   dd.stepRatios[2][2] * 22,
                                                   dd.stepRatios[2][3] * 22), 1) # 0
  /\ dd.stepRatios[23] = DblInt(1)

\* C24: for steps = N > 1 and an integer k with 1 <= k <= N, getStep() after
\* setStep(k, 1) returns k on the x axis; setStep with k <= 1 sets the ratio 0.
C24_SetStepGetStep ==
  /\ (op.name = "getStep" /\ dd.options.steps > 1 /\ op.x \in 1 .. dd.options.steps)
       => op.value[1] = DblInt(op.x)
  /\ (op.name = "setStep" /\ op.x <= 1) => dd.value_target[1] = DblInt(0)

\* what holds of C24 for every N: getStep() returns k to within 2^-48, exactly k
\* for N <= 22, and setStep sets the ratio 0 for k <= 1 and the last step ratio
\* for k > N
C24_UpToRounding ==
  /\ (op.name = "getStep" /\ dd.options.steps > 1 /\ op.x \in 1 .. dd.options.steps)
       => /\ DblOff(op.value[1], op.x) < 2 ^ 12
          /\ dd.options.steps <= 22 => op.value[1] = DblInt(op.x)
          /\ op.value[2] = DblInt(1)
  /\ (op.name = "setStep" /\ op.x <= 1) => dd.value_target[1] = DblInt(0)
  /\ (op.name = "setStep" /\ dd.options.steps > 0 /\ op.x > dd.options.steps)
       => dd.value_target[1] = DblInt(1)

\* C6: an instance constructed without its wrapper or handle raises no exception
\* from any public method.
C6_InertNeverThrows == ~dd.live => ~dd.threw

\* ------------------------------------------------------------------------
\* Properties of the navigators and of the pagination controller
\* ------------------------------------------------------------------------
\* the steps that are interactions with a navigator's elements or the window
Interactions == {"button", "prevnext", "resize", "pointer"}

\* C7: destroy() called twice in a row on a navigator does not throw on the second
\* call and leaves the instance as the first call left it, and after that no
\* callback of the navigator fires on a button, prev/next, pointer or resize
\* interaction.
C7_DestroyTwice ==
  /\ (op.name = "destroy" /\ nv.prevOp = "destroy")
       => (~nv.threw /\ nv.obj = nv.before)
  /\ (nv.destroys >= 2 /\ op.name \in Interactions)
       => (~nv.threw /\ nv.log = <<>>)

\* the Navi of the instance before and after the last step
OldNavi == NaviOf([nv EXCEPT !.obj = nv.before])
NewNavi == NaviOf(nv)

\* the steps on a navigator that are events on its elements, the window or the display
DomEvents == {"button", "prevnext", "resize", "pointer", "frame"}

\* C11: once destroy() of a horizontal slide navigator has returned, its Dragdealer's
\* animation-frame subscription is cancelled and its listeners are detached, the
\* navigator's resize and button listeners are detached, and no event afterwards
\* invokes a callback or changes the instance, whether destroy() was called on an
\* idle, a gliding or a dragging engine.
C11_DestroyDetaches ==
  (nv.kind = "HorizontalSlideNavi" /\ nv.destroys >= 1) =>
    /\ nv.obj.dragDealer = NULL
    /\ ~nv.obj.released.interval
    /\ ~nv.obj.released.bound
    /\ ~nv.obj.resizeBound
    /\ ~nv.obj.bound
    /\ (op.name \in DomEvents) => (nv.log = <<>> /\ nv.calls = <<>> /\ nv.obj = nv.before)

\* the mouse button goes up after a navigator was destroyed in the middle of a drag
C11_Witness ==
  /\ nv.kind = "HorizontalSlideNavi" /\ nv.destroys = 1
  /\ op.name = "pointer" /\ nv.prevOp = "destroy"
  /\ nv.obj.released.dragging

\* C14: HorizontalSlideNavi.resize() on a handle no wider than the wrapper leaves
\* dragging disabled and the target ratio X at 0; on a wider handle it leaves
\* dragging enabled and the target ratio as it was.
C14_ResizeSetsDraggable ==
  (/\ nv.kind = "HorizontalSlideNavi" /\ op.name = "resize"
   /\ nv.before.dragDealer # NULL
   /\ op.event => nv.before.resizeBound) =>
    IF nv.g.handleW <= nv.g.wrapperW
    THEN /\ nv.obj.dragDealer.disabled
         /\ nv.obj.dragDealer.value_target[1] = 0
         /\ ~nv.obj.isDraggable
    ELSE /\ ~nv.obj.dragDealer.disabled
         /\ nv.obj.isDraggable
         /\ nv.obj.dragDealer.value_target = nv.before.dragDealer.value_target

\* a resize finds the handle no wider than the wrapper while dragging is enabled and
\* the ratio is 1
C14_Witness ==
  /\ nv.kind = "HorizontalSlideNavi" /\ op.name = "resize" /\ op.event
  /\ nv.g.handleW <= nv.g.wrapperW
  /\ nv.before.dragDealer # NULL
  /\ ~nv.before.dragDealer.disabled
  /\ nv.before.dragDealer.value_target[1] = Q
  /\ nv.obj.dragDealer.disabled
  /\ nv.obj.dragDealer.value_target[1] = 0

\* C15: Navi.activate(index) invokes the activate callback, when one is set, exactly
\* once, with prevIndex the activated index before the call and index the new one,
\* while getActivatedIndex() still returns the old index; activateIndex holds the
\* new index when the call returns.
C15_ActivateCallsBack ==
  (op.name = "activate" /\ OldNavi # NULL) =>
    /\ nv.calls =
         IF "activateCallback" \in OldNavi.callbacks
         THEN << [cb |-> "activateCallback", prevIndex |-> OldNavi.activateIndex,
                  index |-> NewNavi.activateIndex, activated |-> OldNavi.activateIndex] >>
         ELSE <<>>
    /\ NewNavi.activateIndex = IF op.index \in 1 .. OldNavi.btns THEN op.index ELSE 0

\* activate(3) on a navigator whose button 1 is active
C15_Witness ==
  /\ op.name = "activate" /\ op.index = 3
  /\ Len(nv.calls) = 1
  /\ nv.calls[1].prevIndex = 1 /\ nv.calls[1].index = 3 /\ nv.calls[1].activated = 1
  /\ NewNavi.activateIndex = 3

\* the invocations a click on button i makes on a navigator n with both callbacks
ClickCalls(n, i) ==
  << [cb |-> "clickCallback", prevIndex |-> n.activateIndex, index |-> i,
      activated |-> n.activateIndex],
     [cb |-> "activateCallback", prevIndex |-> n.activateIndex, index |-> i,
      activated |-> n.activateIndex] >>

\* C16: a click on button i invokes the click callback and then the activate
\* callback (each when set), both with prevIndex the activated index before the
\* click and index i and both while getActivatedIndex() still returns the previous
\* index; currentIndex and activateIndex are i when the handler returns.
C16_ClickCallsBack ==
  (op.name = "button" /\ op.type = "click" /\ OldNavi # NULL /\ OldNavi.bound) =>
    /\ nv.calls = SelectSeq(ClickCalls(OldNavi, op.index),
                            LAMBDA c : c.cb \in OldNavi.callbacks)
    /\ NewNavi.currentIndex = op.index
    /\ NewNavi.activateIndex = op.index

\* a click on button 3 while button 1 is active
C16_Witness ==
  /\ op.name = "button" /\ op.type = "click" /\ op.index = 3
  /\ Len(nv.calls) = 2
  /\ nv.calls[1].cb = "clickCallback" /\ nv.calls[2].cb = "activateCallback"
  /\ nv.calls[1].prevIndex = 1 /\ nv.calls[2].activated = 1
  /\ NewNavi.activateIndex = 3

\* C17: activate(index) and getBtn(index) never throw; activate with index <= 0 or
\* index > N sets the activated index to 0; getBtn returns null for such an index
\* and the index-th button for 1 <= index <= N.
C17_OutOfRangeIndex ==
  /\ (op.name = "activate" /\ OldNavi # NULL) =>
       /\ ~nv.threw
       /\ (op.index <= 0 \/ op.index > OldNavi.btns) => NewNavi.activateIndex = 0
  /\ op.name = "getBtn" =>
       /\ ~nv.threw
       /\ nv.ret = IF op.index <= 0 \/ op.index > NewNavi.btns THEN 0 ELSE op.index

\* getBtn(6) on a live navigator with 5 buttons
C17_Witness ==
  /\ op.name = "getBtn" /\ op.index = 6
  /\ NewNavi.btns = 5 /\ NewNavi.bound
  /\ nv.ret = 0

\* C18: Navi.destroy() detaches the button listeners, clears all six callback
\* references and the button list, and resets currentIndex and activateIndex to 0.
C18_DestroyClearsAll ==
  (nv.kind = "Navi" /\ op.name = "destroy") =>
    /\ ~nv.obj.bound
    /\ nv.obj.callbacks = {}
    /\ nv.obj.btns = 0
    /\ nv.obj.currentIndex = 0
    /\ nv.obj.activateIndex = 0

\* the public methods of Navi and HorizontalSlideNavi
PublicMethods ==
  {"activate", "getBtn", "getActivatedIndex", "resize", "setX", "setRatioX", "getRatioX",
   "enable", "disable"}

\* C19: after destroy() of a Navi or a HorizontalSlideNavi every call of a public
\* method returns without throwing, invokes no callback and changes nothing.
C19_MethodsAfterDestroy ==
  (/\ nv.kind \in {"Navi", "HorizontalSlideNavi"} /\ nv.destroys >= 1
   /\ op.name \in PublicMethods
   /\ op.name = "resize" => ~op.event) =>
    /\ ~nv.threw
    /\ nv.calls = <<>> /\ nv.log = <<>>
    /\ nv.obj = nv.before

\* C20: once init() has run with a wrap element present, Pagination holds the desktop
\* navigator whenever the window is at least BREAKPOINTS.pc (960) wide, which
\* includes every width from BREAKPOINTS.max (1340) on, and the mobile slide
\* navigator whenever it is narrower, after construction and after every resize.
C20_NavigatorByWidth ==
  (pg.inited /\ pg.wrapFound) =>
    IF pg.innerWidth >= BREAKPOINTS.pc
    THEN pg.desktopNavi # NULL /\ pg.slideNavi = NULL
    ELSE pg.slideNavi # NULL /\ pg.desktopNavi = NULL

\* the window grows from the tablet width to exactly the pc width
C20_Witness ==
  /\ pg.inited /\ pg.wrapFound
  /\ op.name = "resize" /\ op.from = BREAKPOINTS.tablet
  /\ pg.innerWidth = BREAKPOINTS.pc
  /\ pg.desktopNavi # NULL /\ pg.slideNavi = NULL

\* C21: when the wrap element is absent, init() returns without throwing and the
\* controller has, then and afterwards, no navigator, no resize listener on the
\* window and no click listener on the mobile prev/next buttons.
C21_NoWrapNoInstance ==
  (pg # NULL /\ pg.inited /\ ~pg.wrapFound) =>
    /\ pg.slideNavi = NULL /\ pg.desktopNavi = NULL
    /\ pg.listeners = <<>> /\ ~pg.mobileBtns
    /\ op.name = "init" => ~pg.threw

\* init() has just returned on a page without the wrap element
C21_Witness ==
  /\ pg # NULL /\ pg.inited /\ ~pg.wrapFound
  /\ op.name = "init" /\ ~pg.threw

Has(log, type, who) == \E i \in 1 .. Len(log) : log[i].type = type /\ log[i].who = who

\* a destroy of `old` is logged before a construct of `new`
DestroyedBefore(log, old, new) ==
  \E i, j \in 1 .. Len(log) :
    /\ i < j
    /\ log[i].type = "destroy" /\ log[i].who = old
    /\ log[j].type = "construct" /\ log[j].who = new

\* C8: once Pagination.init() has run with a wrap element present, exactly one of
\* slideNavi and desktopNavi is non-null in every state, and a navigator is only
\* ever constructed when the other one is null (the previous navigator has been
\* destroyed before).
C8_OneNavigator ==
  (pg.inited /\ pg.wrapFound) =>
    /\ (pg.slideNavi = NULL) # (pg.desktopNavi = NULL)
    /\ \A i \in 1 .. Len(pg.log) : pg.log[i].type = "construct" => ~pg.log[i].otherLive

\* a resize event has just swapped the slide navigator for the desktop one
C8_Witness ==
  /\ pg.inited /\ pg.wrapFound
  /\ op.name = "resize"
  /\ DestroyedBefore(pg.log, "slideNavi", "desktopNavi")
  /\ pg.slideNavi = NULL /\ pg.desktopNavi # NULL

\* C9: a resize from a width below the tablet threshold to one at or above the pc
\* threshold destroys the slide navigator, then constructs the desktop navigator,
\* leaves currentIndex unchanged and activates on the new navigator the index that
\* was active on the old one; likewise for the resize in the opposite direction.
C9_SwapKeepsIndex ==
  [][(op'.name = "resize" /\ pg.inited /\ pg.wrapFound) =>
       /\ (pg.innerWidth < BREAKPOINTS.tablet /\ pg'.innerWidth >= BREAKPOINTS.pc) =>
            /\ pg.slideNavi # NULL
            /\ DestroyedBefore(pg'.log, "slideNavi", "desktopNavi")
            /\ pg'.slideNavi = NULL /\ pg'.desktopNavi # NULL
            /\ pg'.currentIndex = pg.currentIndex
            /\ DesktopPaginationNavi_getActivatedIndex(pg'.desktopNavi)
                 = pg.slideNavi.activateIndex
       /\ (pg.innerWidth >= BREAKPOINTS.pc /\ pg'.innerWidth < BREAKPOINTS.tablet) =>
            /\ pg.desktopNavi # NULL
            /\ DestroyedBefore(pg'.log, "desktopNavi", "slideNavi")
            /\ pg'.desktopNavi = NULL /\ pg'.slideNavi # NULL
            /\ pg'.currentIndex = pg.currentIndex
            /\ pg'.slideNavi.activateIndex
                 = DesktopPaginationNavi_getActivatedIndex(pg.desktopNavi)
    ]_vars

\* page 3 is active on the desktop navigator a resize from below tablet has set up
C9_Witness ==
  /\ pg.inited /\ pg.wrapFound
  /\ op.name = "resize" /\ op.from < BREAKPOINTS.tablet
  /\ pg.innerWidth >= BREAKPOINTS.pc
  /\ DestroyedBefore(pg.log, "slideNavi", "desktopNavi")
  /\ pg.currentIndex = 3
  /\ DesktopPaginationNavi_getActivatedIndex(pg.desktopNavi) = 3

\* C10: Pagination.activate(index, direction) emits no CLICK_PAGE_BTN, whatever the
\* index, the direction and the navigator in place; it makes index the current
\* index and the activated index of the navigator (0 when index is out of range)
\* and puts the class 'on' on that button alone.
C10_ActivateIsSilent ==
  op.name = "activate" =>
    /\ ~Has(pg.log, "CLICK_PAGE_BTN", "Pagination")
    /\ ~pg.threw
    /\ pg.currentIndex = op.index
    /\ pg.slideNavi # NULL =>
         /\ pg.slideNavi.activateIndex = Navi_activateIdx(pg.slideNavi, op.index)
         /\ pg.onMobile = Navi_activateIdx(pg.slideNavi, op.index)
    /\ pg.desktopNavi # NULL =>
         /\ DesktopPaginationNavi_getActivatedIndex(pg.desktopNavi)
              = Navi_activateIdx(pg.desktopNavi.navi, op.index)
         /\ pg.onPc = Navi_activateIdx(pg.desktopNavi.navi, op.index)

\* activate(3, 'next') has run on a desktop navigator with more buttons than it shows
C10_Witness ==
  /\ op.name = "activate" /\ op.index = 3 /\ op.direction = "next"
  /\ pg.desktopNavi # NULL
  /\ pg.desktopNavi.naviListItems > DISPLAY_BTN_NUM
  /\ DesktopPaginationNavi_getActivatedIndex(pg.desktopNavi) = 3
  /\ pg.desktopNavi.edgeBtnsIndex.left = 3

\* the indices of the CLICK_PAGE_BTN notifications the running operation emitted
PageBtnIndexes(p) ==
  { p.log[i].index : i \in { j \in DOMAIN p.log : p.log[j].type = "CLICK_PAGE_BTN" } }

\* C31: with the current index in 1..N, every CLICK_PAGE_BTN notification that
\* Pagination emits, from a page-button click, the mobile prev/next buttons or the
\* desktop prev/next buttons, carries an index in 1..N, N the number of page buttons.
C31_NotifiedIndexInRange ==
  [][pg.currentIndex \in 1 .. pg.items => PageBtnIndexes(pg') \subseteq 1 .. pg.items]_vars

\* the same for the clicks on page buttons and on the desktop prev/next buttons
C31_ButtonsAndDesktop ==
  [][((onClickSlideBtn \/ onClickDesktopBtn \/ onClickPrevNextBtn)
        /\ pg.currentIndex \in 1 .. pg.items)
       => PageBtnIndexes(pg') \subseteq 1 .. pg.items]_vars


\* the CLICK_PAGE_BTN notifications the running operation emitted, in order
PageBtnEvents(p) == SelectSeq(p.log, LAMBDA e : e.type = "CLICK_PAGE_BTN")

\* a click on button i when button `active` was the active one did what the claim says
ClickedPageBtn(p, q, active, i) ==
  IF i = active
  THEN PageBtnEvents(q) = <<>> /\ q.currentIndex = p.currentIndex
  ELSE /\ Len(PageBtnEvents(q)) = 1
       /\ PageBtnEvents(q)[1].index = i
       /\ q.currentIndex = i

\* C32: a click on the page button that is already active emits no CLICK_PAGE_BTN
\* notification and leaves currentIndex unchanged; a click on any other button i emits
\* exactly one notification, with index i, and sets currentIndex to i.  This holds for
\* the mobile slide navigator and for the desktop navigator.
C32_ClickPageBtn ==
  [][/\ onClickSlideBtn
        => ClickedPageBtn(pg, pg', pg.slideNavi.activateIndex, pg'.slideNavi.activateIndex)
     /\ onClickDesktopBtn
        => ClickedPageBtn(pg, pg', pg.desktopNavi.navi.activateIndex,
                          pg'.desktopNavi.navi.activateIndex)]_vars

\* the same with the active button taken to be the one that carries the class 'on'
C32_ClickOnButton ==
  [][/\ onClickSlideBtn
        => ClickedPageBtn(pg, pg', pg.onMobile, pg'.slideNavi.activateIndex)
     /\ onClickDesktopBtn
        => ClickedPageBtn(pg, pg', pg.onPc, pg'.desktopNavi.navi.activateIndex)]_vars

\* a click on a button of the desktop list other than the active one was announced
C32_Witness ==
  /\ op.name = "click"
  /\ pg.log # <<>>
  /\ pg.log[Len(pg.log)].type = "CLICK_PAGE_BTN"
  /\ pg.desktopNavi # NULL
  /\ pg.currentIndex = 3
  /\ pg.onPc = 3


\* C33: a drag in progress ends at the next pointer-up even if disable() was called on
\* the engine meanwhile: after the pointer-up dragging is false, so that ticks no longer
\* move the target with the pointer.
C33_DragEndsAtPointerUp ==
  [][(OptDocumentMouseUp /\ dd.dragging) => ~dd'.dragging]_vars

\* the pointer-up ends the drag of an engine that is enabled
C33_Enabled ==
  [][(OptDocumentMouseUp /\ dd.dragging /\ ~dd.disabled) => ~dd'.dragging]_vars

\* after the pointer-up on a disabled engine a tick still moves the target with the pointer
C33_StillFollows ==
  /\ op.name = "tick"
  /\ dd.disabled
  /\ dd.dragging
  /\ dd.change # <<0, 0>>


\* the activated index the navigator in use reports; none is in use on a page without
\* the wrap element
ActiveNavigators(p) ==
  (IF p.slideNavi # NULL THEN {p.slideNavi.activateIndex} ELSE {})
    \cup (IF p.desktopNavi # NULL THEN {DesktopPaginationNavi_getActivatedIndex(p.desktopNavi)}
          ELSE {})

\* init, resize, activate or a click on a page button
PaginationOperation ==
  \/ CallPaginationInit
  \/ CallPaginationActivate
  \/ onWindowResizePage
  \/ onClickSlideBtn
  \/ onClickDesktopBtn

\* C34: after every public operation of Pagination (init, resize, activate, a click on
\* a page button) currentIndex equals the activated index that the navigator in use
\* reports, whatever index was passed, indices outside 1..N included.
C34_CurrentIsActivated ==
  [][(PaginationOperation /\ ~pg'.threw)
       => \A a \in ActiveNavigators(pg') : pg'.currentIndex = a]_vars

\* the same for the indices 1..N
C34_InRange ==
  [][(PaginationOperation /\ ~pg'.threw /\ pg.currentIndex \in 1 .. pg.items
        /\ (CallPaginationActivate => op'.index \in 1 .. pg.items))
       => \A a \in ActiveNavigators(pg') : pg'.currentIndex = a]_vars


\* the window was set up by the constructor, or recomputed by a shift in direction
\* 'next' to an index that the window did not show
WindowSetForward ==
  \/ op.name = "init" /\ pg.desktopNavi # NULL
  \/ /\ op.name \in {"prevnext", "activate"} /\ op.direction = "next" /\ ~op.inLoop
     /\ op.index \notin Range(visibleLoop(pg.items, op.edges.left, 0))

\* the edges of k delimit the buttons on display: left, left + 1, left + 2, left + 3,
\* 1-based with 1 after N, the right edge being the last of them
EdgesDelimitVisible(k) ==
  LET v == DesktopPaginationNavi_visible(k)
      n == k.naviListItems
  IN /\ Len(v) = DISPLAY_BTN_NUM
     /\ \A j \in 1 .. DISPLAY_BTN_NUM : v[j] = ((k.edgeBtnsIndex.left + j - 2) % n) + 1
     /\ k.edgeBtnsIndex.right = v[DISPLAY_BTN_NUM]

\* C35: on the desktop navigator with N > 4 buttons, after construction and after a
\* switchBtns call (here: one that recomputes the window in direction 'next'), the
\* edge indices delimit exactly the 4 buttons that setNaviListItemsPosition shows:
\* left, left+1, left+2, left+3, 1-based with wrap after N, and edgeBtnsIndex.right
\* is the last of them.
C35_EdgesDelimitVisible ==
  WindowSetForward => EdgesDelimitVisible(pg.desktopNavi)

\* the same away from the boundary where left + 3 is a multiple of N
C35_AwayFromBoundary ==
  (WindowSetForward
     /\ (pg.desktopNavi.edgeBtnsIndex.left + DISPLAY_BTN_NUM - 1) % pg.items # 0)
    => EdgesDelimitVisible(pg.desktopNavi)


\* C36: switchBtns(direction, index) leaves the edge indices and the positions of the
\* buttons as they are when there are at most 4 buttons, when no direction is given,
\* or when the index lies inside the window on display (isIndexInLoop answers true);
\* checked where switchBtns is called: Pagination.activate and the handler of
\* CLICK_PREVNEXT_BTN.
C36_SwitchBtnsKeepsWindow ==
  [][((CallPaginationActivate \/ onClickPrevNextBtn)
        /\ pg.desktopNavi # NULL /\ pg'.desktopNavi # NULL
        /\ (\/ pg.desktopNavi.naviListItems <= DISPLAY_BTN_NUM
            \/ op'.direction = ""
            \/ op'.inLoop))
       => /\ pg'.desktopNavi.edgeBtnsIndex = pg.desktopNavi.edgeBtnsIndex
          /\ DesktopPaginationNavi_visible(pg'.desktopNavi)
               = DesktopPaginationNavi_visible(pg.desktopNavi)]_vars

\* activate(3, 'next') on five buttons with the window 1..4 on display left it there
C36_Witness ==
  /\ op.name = "activate" /\ op.direction = "next" /\ op.inLoop /\ op.index = 3
  /\ pg.desktopNavi # NULL
  /\ pg.items = 5
  /\ pg.desktopNavi.edgeBtnsIndex.left = 1
  /\ DesktopPaginationNavi_visible(pg.desktopNavi) = <<1, 2, 3, 4>>


\* C37: isSlidable() of a HorizontalSlideNavi returns true exactly when its drag engine
\* is enabled, after any sequence of resize(), enable() and disable() calls, those
\* included that Pagination.resize makes after the navigator's own resize handler ran.
C37_SlidableIffEnabled ==
  (pg.slideNavi # NULL /\ pg.slideNavi.dragDealer # NULL /\ ~pg.threw) =>
    (HorizontalSlideNavi_isSlidable(pg.slideNavi) <=> ~pg.slideNavi.dragDealer.disabled)

\* the navigator's own resize() leaves the two in agreement
C37_AfterOwnResize ==
  [][\A g \in {SlideLayout(pg)} :
       (pg.slideNavi # NULL /\ pg.slideNavi.dragDealer # NULL) =>
         LET s == HorizontalSlideNavi_resize(pg.slideNavi, g)
         IN HorizontalSlideNavi_isSlidable(s) <=> ~s.dragDealer.disabled]_vars


\* both indices of the navigator's Navi lie in 0..N
NaviIndicesInRange(v) ==
  NaviOf(v) # NULL =>
    /\ NaviOf(v).activateIndex \in 0 .. v.items
    /\ NaviOf(v).currentIndex \in 0 .. v.items

\* a hover, press or release on a button
HoverPressRelease ==
  /\ op'.name = "button"
  /\ op'.type \in {"mouseover", "mouseout", "mousedown", "mouseup"}

\* C38: for a Navi with N buttons, activateIndex and currentIndex are in 0..N after
\* any sequence of activate(index) calls with arbitrary integers, clicks, hover, press
\* and release events and destroy() calls; hover, press and release never change
\* activateIndex.
C38_IndicesInRange ==
  /\ []NaviIndicesInRange(nv)
  /\ [][HoverPressRelease =>
          (NaviOf(nv) # NULL => NaviOf(nv').activateIndex = NaviOf(nv).activateIndex)]_vars

\* activate(6) on three buttons left none active, and a hover then moved currentIndex only
C38_Witness ==
  /\ op.name = "button" /\ op.type = "mouseover" /\ op.index = 3
  /\ nv.prevOp = "activate"
  /\ nv.kind = "Navi" /\ nv.items = 3
  /\ nv.obj.currentIndex = 3
  /\ nv.obj.activateIndex = 0


\* at most one interval timer is live
OneRollingTimer == Cardinality(pb.timers) <= 1

\* a call of setRollingBannerInterval has cleared the timer the banner held
PreviousCleared ==
  [][(pb.rollingBannerIntervalId # 0
        /\ pb'.rollingBannerIntervalId # pb.rollingBannerIntervalId)
       => pb.rollingBannerIntervalId \notin pb'.timers]_vars

\* no timer is live while the mouse is over the banner or a finger touches it
PausedUnderPointer == (OverBanner(pb.mouse) \/ pb.touches # {}) => pb.timers = {}

\* no timer was ever started for a banner of at most one page
NoRollingForOnePage == pb.items <= 1 => pb.handles = 0

\* C39: after any sequence of pointer enter / leave (or touchstart / touchend) events
\* on a PromotionBanner at most one auto-rotation interval timer is live; every
\* setRollingBannerInterval call clears the previous timer before it may start a new
\* one; no timer is live while the pointer is over the banner; and none is ever
\* started when there is at most one page.
C39_RollingTimer ==
  /\ [](OneRollingTimer /\ PausedUnderPointer /\ NoRollingForOnePage)
  /\ PreviousCleared

\* the parts that do not speak of where the pointer is
C39_TimerBookkeeping ==
  /\ [](OneRollingTimer /\ NoRollingForOnePage)
  /\ PreviousCleared

\* the timer rests while the pointer is over the banner, once the banner has seen it
\* come and with one finger at a time
C39_PausedOnceSeen ==
  (\/ op.name = "mouse" /\ OverBanner(pb.mouse)
   \/ op.name = "touchstart" /\ Cardinality(pb.touches) = 1)
    => pb.timers = {}


\* the steps that were started from the queue, in the order they began
QueuedBegun(t) == SelectSeq(t.begun, LAMBDA e : e.fromQueue)

\* the queued steps began in the order they were queued
RunInQueueOrder ==
  \A i, j \in DOMAIN QueuedBegun(tr) :
    i < j => QueuedBegun(tr)[i].id < QueuedBegun(tr)[j].id

\* a queued step begins only when a timer completes or next() is called, and no timer
\* of an earlier step runs on once it has begun
BeginsAfterPrevious ==
  [][Len(QueuedBegun(tr')) > Len(QueuedBegun(tr)) =>
       /\ op'.name \in {"complete", "next"}
       /\ Head(tr.queue).id = QueuedBegun(tr')[Len(QueuedBegun(tr)) + 1].id
       /\ DOMAIN tr'.delays \subseteq (tr.created + 1) .. tr'.created]_vars

\* the call made in this step dropped the pending steps and left active false unless
\* it began a timed step
Discarded ==
  /\ tr'.queue = <<>>
  /\ tr'.active <=> (tr'.created > tr.created)

\* C40: the steps of a tram Transition queued with then() run in queue order, each
\* started only after the previous step's timer completed (or next() was called); a
\* start() from outside the queue, and any stop(), discards all pending queued steps
\* and leaves active = false unless a new timed step begins.
C40_AsStated ==
  /\ []RunInQueueOrder
  /\ BeginsAfterPrevious
  /\ [][op'.name \in {"start", "stop"} => Discarded]_vars

\* C40 (as the code has it): the same for every stop() and for a start() that is given
\* options; a start() without options (undefined, null, 0 or '') returns at once and
\* leaves the queue, the timer and active as they are.
C40_QueueDiscipline ==
  /\ []RunInQueueOrder
  /\ BeginsAfterPrevious
  /\ [][(op'.name = "stop" \/ (op'.name = "start" /\ ~Falsy(op'.options))) => Discarded]_vars
  /\ [][(op'.name = "start" /\ Falsy(op'.options)) =>
          /\ tr'.queue = tr.queue /\ tr'.active = tr.active
          /\ tr'.delays = tr.delays /\ tr'.timer = tr.timer]_vars

\* two steps were queued behind a tween and a start() from outside dropped the second
\* while the first, a delay begun when the tween's timer completed, was running
C40_Witness ==
  /\ op.name = "start" /\ op.options = "object"
  /\ Len(QueuedBegun(tr)) = 1
  /\ QueuedBegun(tr)[1].id = 2
  /\ tr.pushed = 4
  /\ tr.queue = <<>>
  /\ tr.active
  /\ DOMAIN tr.delays = {3}

====
